---------------------------- MODULE Spec2Model ----------------------------
(***************************************************************************)
(* A model of stalwartlabs/mail-builder: the byte encoders (base64,        *)
(* quoted-printable), the Text header writer and the MIME part writer      *)
(* MimePart::write_part.                                                   *)
(*                                                                         *)
(* Bytes are integers 0..255 and byte strings are sequences of them.  The  *)
(* MIME part writer works on strings whose content is irrelevant to the    *)
(* walk, so there a string is a sequence of tokens (TLA+ strings), and the *)
(* length of a string is the sum of the lengths of its tokens.             *)
(***************************************************************************)
EXTENDS Integers, Sequences, FiniteSets, TLC

VARIABLES
    fn,             \* the function under execution
    input,          \* its input: a byte string, a list of them, or the root MimePart
    flag,           \* is_inline (base64), is_body (quoted-printable, detect_encoding)
    pos,            \* loop index into input (0-based, as in the source)
    bytes_written,  \* the local of the same name
    prev_ch,        \* quoted_printable_encode: prev_ch
    output,         \* the sink: bytes written so far (chunks for write_part)
    pc,             \* position in the function: "loop", "done", ...
    folds,          \* Text::write_header: the pos values at which a new encoded-word was opened
    scan,           \* get_encoding_type: its locals; detect_encoding: the encoding it named
    it,             \* write_part: the current sibling iterator (remaining parts)
    stack,          \* write_part: suspended (iterator, boundary) pairs
    boundary,       \* write_part: Option<boundary>; None is <<>>, Some(b) is <<b>>
    counter,        \* make_boundary: the thread-local COUNTER
    hash,           \* make_boundary: hash of host name and thread id (low 16 bits)
    resolved,       \* write_part: part id -> boundary assigned to `boundary` for it
    builder,        \* the MessageBuilder: its header map and its body fields
    sink,           \* the Write the output goes to: how many writes it still accepts
    column          \* write_header: the bytes_written argument as the caller passed it

vars == <<fn, input, flag, pos, bytes_written, prev_ch, output, pc, folds, scan,
          it, stack, boundary, counter, hash, resolved, builder, sink, column>>

encVars == <<fn, input, flag, pos, bytes_written, prev_ch, output, pc, folds, scan>>
walkVars == <<it, stack, boundary, counter, hash, resolved>>
msgVars == <<builder, sink, column>>

-----------------------------------------------------------------------------
(* Bounds of the model.                                                    *)

\* Byte strings up to this length are enumerated over all sample bytes.
MaxShortLen == 3
\* Patterned base64 inputs range over every length up to this one.
MaxLongLen == 116
\* Patterned quoted-printable inputs have runs of up to this many bytes.
MaxRun == 78
\* Sample texts of up to this many characters are all enumerated.
MaxChars == 3
\* Long texts start with a run of up to this many x.
MaxTextRun == 67
\* Texts of up to this many deltas.
MaxDeltas == 36
\* Plain texts of up to this many words.
MaxWords == 11
\* MIME trees of up to this many parts are all enumerated.
MaxNodes == 5
\* The selector is run on lines of up to this many bytes before their LF.
MaxLineRun == 998
\* and on up to this many non-ASCII bytes followed by as many letters.
MaxMix == 6
\* detect_encoding: bodies of up to MaxBodyLen bytes over CR, LF and a letter.
MaxBodyLen == 5
\* URL and MessageId lists of up to MaxListLen elements.
MaxListLen == 3

\* The MessageBuilder of a run that does not use one.
NoBuilder == <<>>

-----------------------------------------------------------------------------
(* Characters.                                                             *)

CHARPAD == 61
TAB == 9
LF == 10
CR == 13
SP == 32
CRLF == <<CR, LF>>

\* s repeated n times
Rep(s, n) == [i \in 1..(n * Len(s)) |-> s[((i - 1) % Len(s)) + 1]]

RECURSIVE SeqsUpTo(_, _)
SeqsUpTo(S, n) ==
    IF n = 0 THEN {<<>>}
    ELSE LET shorter == SeqsUpTo(S, n - 1)
         IN  shorter \cup {Append(s, b) : s \in {t \in shorter : Len(t) = n - 1}, b \in S}

\* input[pos] of the source, where pos counts from 0.
At(s, p) == s[p + 1]

-----------------------------------------------------------------------------
(* src/encoders/base64.rs                                                  *)

\* "ABC...XYZabc...xyz0123456789+/"
B64Alphabet ==
    [k \in 1..64 |->
        IF k <= 26 THEN 64 + k
        ELSE IF k <= 52 THEN 70 + k
        ELSE IF k <= 62 THEN k - 5
        ELSE IF k = 63 THEN 43 ELSE 47]

\* The lookup tables: E0 holds every letter four times in a row, E1 and E2
\* hold the alphabet four times over.
E0(x) == B64Alphabet[(x \div 4) + 1]
E1(x) == B64Alphabet[(x % 64) + 1]
E2(x) == B64Alphabet[(x % 64) + 1]

\* u8 arithmetic of the index expressions: x & 0x03 is x % 4, x << 4 is
\* (x * 16) % 256, x >> 4 is x \div 16, and | of disjoint bit fields is +.
Group3Wrong(t1, t2, t3) ==
    << E0(t1),
       E1((((t1 % 4) * 16) % 256) + ((t2 \div 16) % 16)),
       E1((((t2 % 16) * 4) % 256) + ((t3 \div 64) % 4)),
       E2(t3 \div 4) >>

Group3(t1, t2, t3) ==
    << E0(t1),
       E1((((t1 % 4) * 16) % 256) + ((t2 \div 16) % 16)),
       E1((((t2 % 16) * 4) % 256) + ((t3 \div 64) % 4)),
       E2(t3) >>

Tail1(t1) ==
    << E0(t1), E1(((t1 % 4) * 16) % 256), CHARPAD, CHARPAD >>

Tail2(t1, t2) ==
    << E0(t1),
       E1((((t1 % 4) * 16) % 256) + ((t2 \div 16) % 16)),
       E2(((t2 % 16) * 4) % 256),
       CHARPAD >>

\* if !is_inline && bytes_written % 19 == 0
LineBreakDue(is_inline, bw) == ~is_inline /\ bw % 19 = 0

FinalBreakDueAlways(is_inline, bw) == ~is_inline

\* if !is_inline && bytes_written % 19 != 0
FinalBreakDue(is_inline, bw) == ~is_inline /\ bw % 19 # 0

\* One iteration of `while i < input.len() - 2`.
Base64Loop ==
    /\ fn = "base64" /\ pc = "loop"
    /\ Len(input) > 2 /\ pos < Len(input) - 2
    /\ LET bw == bytes_written + 4
       IN  /\ output' = output \o Group3(At(input, pos), At(input, pos + 1), At(input, pos + 2))
                               \o (IF LineBreakDue(flag, bw) THEN CRLF ELSE <<>>)
           /\ bytes_written' = bw
    /\ pos' = pos + 3
    /\ UNCHANGED <<fn, input, flag, prev_ch, pc, folds, scan>>
    /\ UNCHANGED walkVars
    /\ UNCHANGED msgVars

\* The code after the loop: the 1- or 2-byte tail and the final CRLF.
Base64Finish ==
    /\ fn = "base64" /\ pc = "loop"
    /\ ~(Len(input) > 2 /\ pos < Len(input) - 2)
    /\ LET remaining == Len(input) - pos
           tail == IF remaining = 0 THEN <<>>
                   ELSE IF remaining = 1 THEN Tail1(At(input, pos))
                   ELSE Tail2(At(input, pos), At(input, pos + 1))
           bw == IF remaining > 0 THEN bytes_written + 4 ELSE bytes_written
       IN  /\ output' = output \o tail
                               \o (IF remaining > 0 /\ LineBreakDue(flag, bw) THEN CRLF ELSE <<>>)
                               \o (IF FinalBreakDue(flag, bw) THEN CRLF ELSE <<>>)
           /\ bytes_written' = bw
    /\ pc' = "done"
    /\ UNCHANGED <<fn, input, flag, pos, prev_ch, folds, scan>>
    /\ UNCHANGED walkVars
    /\ UNCHANGED msgVars

\* base64_encode_mime(input, output, is_inline) from byte p on, with bw
\* characters written before: the bytes written.
RECURSIVE Base64Run(_, _, _, _)
Base64Run(s, is_inline, p, bw) ==
    IF Len(s) > 2 /\ p < Len(s) - 2
    THEN Group3(At(s, p), At(s, p + 1), At(s, p + 2))
             \o (IF LineBreakDue(is_inline, bw + 4) THEN CRLF ELSE <<>>)
             \o Base64Run(s, is_inline, p + 3, bw + 4)
    ELSE LET remaining == Len(s) - p
             tail == IF remaining = 0 THEN <<>>
                     ELSE IF remaining = 1 THEN Tail1(At(s, p))
                     ELSE Tail2(At(s, p), At(s, p + 1))
             end == IF remaining > 0 THEN bw + 4 ELSE bw
         IN  tail \o (IF remaining > 0 /\ LineBreakDue(is_inline, end) THEN CRLF ELSE <<>>)
                  \o (IF FinalBreakDue(is_inline, end) THEN CRLF ELSE <<>>)

\* The bytes base64_encode_mime(input, output, is_inline) writes.
base64_encode_mime(s, is_inline) == Base64Run(s, is_inline, 0, 0)

-----------------------------------------------------------------------------
(* src/encoders/quoted_printable.rs                                        *)

\* One digit of {:02X}.
HexDigit(d) == IF d < 10 THEN 48 + d ELSE 55 + d

EscapeByteNoPad(ch) ==
    IF ch < 16 THEN <<61, HexDigit(ch)>>
    ELSE <<61, HexDigit(ch \div 16), HexDigit(ch % 16)>>

\* format!("={:02X}", ch)
EscapeByte(ch) == <<61, HexDigit(ch \div 16), HexDigit(ch % 16)>>

\* matches!(input.get(pos + 1..), Some([b'\n', ..] | [b'\r', b'\n', ..]))
NewlineFollows(s, p) ==
    \/ (Len(s) >= p + 2 /\ At(s, p + 1) = LF)
    \/ (Len(s) >= p + 3 /\ At(s, p + 1) = CR /\ At(s, p + 2) = LF)

\* The first condition of the body branch.
BodyEscapes(s, p) ==
    LET ch == At(s, p)
    IN  \/ ch = 61
        \/ ch >= 127
        \/ ((ch = SP \/ ch = TAB) /\ (NewlineFollows(s, p) \/ p = Len(s) - 1))

AttachmentEscapesNoLineEnd(s, p) ==
    LET ch == At(s, p)
    IN  \/ ch = 61
        \/ ch >= 127
        \/ ((ch = SP \/ ch = TAB) /\ p = Len(s) - 1)

\* The condition of the attachment branch.
AttachmentEscapes(s, p) ==
    LET ch == At(s, p)
    IN  \/ ch = 61
        \/ ch >= 127
        \/ (ch = CR \/ ch = LF)
        \/ ((ch = SP \/ ch = TAB) /\ p = Len(s) - 1)

\* if bytes_written + n > 76 { "=\r\n"; bytes_written = 0 }
SoftBreakDue(bw, n) == bw + n > 76

\* The body of `for (pos, &ch) in input.iter().enumerate()` at byte p, in
\* either branch of `if is_body`; st holds what was written so far and the
\* locals bytes_written and prev_ch.
QuotedPrintableByte(s, is_body, p, st) ==
    LET ch == At(s, p)
        escapes == IF is_body THEN BodyEscapes(s, p) ELSE AttachmentEscapes(s, p)
    IN  IF escapes
        THEN LET brk == SoftBreakDue(st.bytes_written, 3)
             IN  [output |-> st.output \o (IF brk THEN <<61, CR, LF>> ELSE <<>>) \o EscapeByte(ch),
                  bytes_written |-> (IF brk THEN 0 ELSE st.bytes_written) + 3,
                  prev_ch |-> st.prev_ch]
        ELSE IF is_body /\ ch = LF
        THEN [output |-> st.output \o (IF st.prev_ch # CR THEN CRLF ELSE <<LF>>),
              bytes_written |-> 0,
              prev_ch |-> st.prev_ch]
        ELSE LET brk == SoftBreakDue(st.bytes_written, 1)
             IN  [output |-> st.output \o (IF brk THEN <<61, CR, LF>> ELSE <<>>) \o <<ch>>,
                  bytes_written |-> (IF brk THEN 0 ELSE st.bytes_written) + 1,
                  prev_ch |-> IF is_body THEN ch ELSE st.prev_ch]

\* quoted_printable_encode(input, output, is_body) after n iterations of its
\* loop, started on an empty output.
RECURSIVE QuotedPrintableRun(_, _, _)
QuotedPrintableRun(s, is_body, n) ==
    IF n = 0 THEN [output |-> <<>>, bytes_written |-> 0, prev_ch |-> 0]
    ELSE CHOOSE r \in {QuotedPrintableByte(s, is_body, n - 1, acc) :
                           acc \in {QuotedPrintableRun(s, is_body, n - 1)}} : TRUE

\* The bytes quoted_printable_encode(input, output, is_body) writes.
quoted_printable_encode(s, is_body) == QuotedPrintableRun(s, is_body, Len(s)).output

\* One iteration of `for (pos, &ch) in input.iter().enumerate()`.
QuotedPrintableStep ==
    /\ fn = "quoted_printable" /\ pc = "loop"
    /\ pos < Len(input)
    /\ \E st \in {QuotedPrintableByte(input, flag, pos,
                       [output |-> output, bytes_written |-> bytes_written, prev_ch |-> prev_ch])} :
           /\ output' = st.output
           /\ bytes_written' = st.bytes_written
           /\ prev_ch' = st.prev_ch
    /\ pos' = pos + 1
    /\ UNCHANGED <<fn, input, flag, pc, folds, scan>>
    /\ UNCHANGED walkVars
    /\ UNCHANGED msgVars

\* Ok(bytes_written)
QuotedPrintableReturn ==
    /\ fn = "quoted_printable" /\ pc = "loop"
    /\ pos = Len(input)
    /\ pc' = "done"
    /\ UNCHANGED <<fn, input, flag, pos, bytes_written, prev_ch, output, folds, scan>>
    /\ UNCHANGED walkVars
    /\ UNCHANGED msgVars

-----------------------------------------------------------------------------
(* src/encoders/quoted_printable.rs: the "Q" encoding of RFC 2047          *)

quoted_printable_encode_byte_underscore_kept(ch) ==
    IF ch = 61 \/ ch = 63 \/ ch = TAB \/ ch = CR \/ ch = LF \/ ch >= 127
    THEN EscapeByte(ch)
    ELSE IF ch = SP THEN <<95>>
    ELSE <<ch>>

\* quoted_printable_encode_byte: the bytes written for ch (their number is
\* the value returned).
quoted_printable_encode_byte(ch) ==
    IF ch = 61 \/ ch = 63 \/ ch = 95 \/ ch = TAB \/ ch = CR \/ ch = LF \/ ch >= 127
    THEN EscapeByte(ch)
    ELSE IF ch = SP THEN <<95>>
    ELSE <<ch>>

\* The value quoted_printable_encode_byte returns for ch: Ok(3) or Ok(1).
QuotedPrintableByteLen(ch) ==
    IF ch = 61 \/ ch = 63 \/ ch = 95 \/ ch = TAB \/ ch = CR \/ ch = LF \/ ch >= 127
    THEN 3
    ELSE 1

\* One iteration of `for &ch in input.iter()` of
\* inline_quoted_printable_encode.
InlineQuotedPrintableStep ==
    /\ fn = "inline_quoted_printable" /\ pc = "loop"
    /\ pos < Len(input)
    /\ output' = output \o quoted_printable_encode_byte(At(input, pos))
    /\ bytes_written' = bytes_written + QuotedPrintableByteLen(At(input, pos))
    /\ pos' = pos + 1
    /\ UNCHANGED <<fn, input, flag, prev_ch, pc, folds, scan>>
    /\ UNCHANGED walkVars
    /\ UNCHANGED msgVars

\* Ok(bytes_written)
InlineQuotedPrintableReturn ==
    /\ fn = "inline_quoted_printable" /\ pc = "loop"
    /\ pos = Len(input)
    /\ pc' = "done"
    /\ UNCHANGED <<fn, input, flag, pos, bytes_written, prev_ch, output, folds, scan>>
    /\ UNCHANGED walkVars
    /\ UNCHANGED msgVars

\* inline_quoted_printable_encode(input, output) as one value: the bytes
\* written.
RECURSIVE inline_quoted_printable_encode(_)
inline_quoted_printable_encode(s) ==
    IF s = <<>> THEN <<>>
    ELSE quoted_printable_encode_byte(Head(s)) \o inline_quoted_printable_encode(Tail(s))

-----------------------------------------------------------------------------
(* src/encode.rs                                                           *)

\* (input.len() * 4 / 3 + 3) & !3
Base64Len(n) == ((((n * 4) \div 3) + 3) \div 4) * 4

\* The locals of get_encoding_type before its loop.
EncodingScanInit(s, is_inline) ==
    [qp_len |-> IF ~is_inline THEN Len(s) \div 76 ELSE 0,
     is_ascii |-> TRUE,
     needs_encoding |-> FALSE,
     line_len |-> 0]

\* One iteration of the loop of get_encoding_type, at byte p; st holds the
\* locals qp_len, is_ascii, needs_encoding and line_len.
EncodingScanByte(s, is_inline, p, st) ==
    LET ch == At(s, p)
        line_len == st.line_len + 1
    IN  IF \/ ch >= 127
           \/ ((ch = SP \/ ch = TAB) /\ (NewlineFollows(s, p) \/ p = Len(s) - 1))
        THEN [qp_len |-> st.qp_len + 3,
              is_ascii |-> st.is_ascii /\ ch < 127,
              needs_encoding |-> TRUE,
              line_len |-> line_len]
        ELSE IF ch = 61 \/ (is_inline /\ (ch = TAB \/ ch = 63))
        THEN [qp_len |-> st.qp_len + 3,
              is_ascii |-> st.is_ascii,
              needs_encoding |-> st.needs_encoding,
              line_len |-> line_len]
        ELSE [qp_len |-> st.qp_len + 1,
              is_ascii |-> st.is_ascii,
              needs_encoding |-> st.needs_encoding \/ (ch = LF /\ line_len > 997),
              line_len |-> IF ch = LF THEN 0 ELSE line_len]

EncodingDecisionAtMost(s, st) ==
    IF ~st.needs_encoding THEN [type |-> "None", is_ascii |-> st.is_ascii]
    ELSE IF st.qp_len <= Base64Len(Len(s))
         THEN [type |-> "QuotedPrintable", is_ascii |-> st.is_ascii]
    ELSE [type |-> "Base64", is_ascii |-> st.is_ascii]

\* The decision after the loop: "None", "Base64" or "QuotedPrintable", the
\* latter with its is_ascii flag.
EncodingDecision(s, st) ==
    IF ~st.needs_encoding THEN [type |-> "None", is_ascii |-> st.is_ascii]
    ELSE IF st.qp_len < Base64Len(Len(s))
         THEN [type |-> "QuotedPrintable", is_ascii |-> st.is_ascii]
    ELSE [type |-> "Base64", is_ascii |-> st.is_ascii]

\* get_encoding_type(input, is_inline) as one value (for short inputs).
RECURSIVE EncodingScan(_, _, _)
EncodingScan(s, is_inline, n) ==
    IF n = 0 THEN EncodingScanInit(s, is_inline)
    ELSE CHOOSE r \in {EncodingScanByte(s, is_inline, n - 1, acc) :
                           acc \in {EncodingScan(s, is_inline, n - 1)}} : TRUE

get_encoding_type(s, is_inline) ==
    CHOOSE r \in {EncodingDecision(s, st) : st \in {EncodingScan(s, is_inline, Len(s))}} : TRUE

\* The EncodingType returned, as a tuple.
EncodingType(enc) ==
    IF enc.type = "QuotedPrintable" THEN <<enc.type, enc.is_ascii>> ELSE <<enc.type>>

\* for (pos, &ch) in input.iter().enumerate() { ... }
EncodingLoop ==
    /\ fn = "get_encoding_type" /\ pc = "loop"
    /\ pos < Len(input)
    /\ scan' = EncodingScanByte(input, flag, pos, scan)
    /\ pos' = pos + 1
    /\ UNCHANGED <<fn, input, flag, bytes_written, prev_ch, output, pc, folds>>
    /\ UNCHANGED walkVars
    /\ UNCHANGED msgVars

\* The decision after the loop, returned to the caller.
EncodingReturn ==
    /\ fn = "get_encoding_type" /\ pc = "loop"
    /\ pos = Len(input)
    /\ output' = EncodingType(EncodingDecision(input, scan))
    /\ pc' = "done"
    /\ UNCHANGED <<fn, input, flag, pos, bytes_written, prev_ch, folds, scan>>
    /\ UNCHANGED walkVars
    /\ UNCHANGED msgVars

-----------------------------------------------------------------------------
(* src/headers/text.rs                                                     *)

\* base64_encode_mime(chunk, output, true) as one value.
RECURSIVE Base64Inline(_)
Base64Inline(s) ==
    IF Len(s) = 0 THEN <<>>
    ELSE IF Len(s) = 1 THEN Tail1(s[1])
    ELSE IF Len(s) = 2 THEN Tail2(s[1], s[2])
    ELSE Group3(s[1], s[2], s[3]) \o Base64Inline(SubSeq(s, 4, Len(s)))

\* "=?us-ascii?Q?", "=?utf-8?Q?", "=?utf-8?B?", "?=\r\n", "?=\r\n\t", "\r\n\t"
PrefixAsciiQ == <<61, 63, 117, 115, 45, 97, 115, 99, 105, 105, 63, 81, 63>>
PrefixUtf8Q == <<61, 63, 117, 116, 102, 45, 56, 63, 81, 63>>
PrefixUtf8B == <<61, 63, 117, 116, 102, 45, 56, 63, 66, 63>>
WordEnd == <<63, 61, CR, LF>>
WordBreak == <<63, 61, CR, LF, TAB>>
FoldBreak == <<CR, LF, TAB>>

QPrefix(is_ascii) == IF is_ascii THEN PrefixAsciiQ ELSE PrefixUtf8Q

IsCharBoundaryAlways(ch) == TRUE

\* (ch as i8) >= -0x40
IsCharBoundary(ch) ==
    LET as_i8 == IF ch >= 128 THEN ch - 256 ELSE ch
    IN  as_i8 >= -64

\* u8::is_ascii_whitespace: space, tab, LF, form feed, CR
IsAsciiWhitespace(ch) == ch \in {SP, TAB, LF, 12, CR}

\* get_encoding_type(self.text.as_bytes(), true, false): one iteration of
\* its loop.
TextScanStep ==
    /\ fn = "text_header" /\ pc = "start"
    /\ pos < Len(input)
    /\ scan' = EncodingScanByte(input, TRUE, pos, scan)
    /\ pos' = pos + 1
    /\ UNCHANGED <<fn, input, flag, bytes_written, prev_ch, output, pc, folds>>
    /\ UNCHANGED walkVars
    /\ UNCHANGED msgVars

\* The match on the selector's result; the
\* QuotedPrintable arm writes its prefix before the loop.
TextBegin ==
    /\ fn = "text_header" /\ pc = "start"
    /\ pos = Len(input)
    /\ LET enc == EncodingDecision(input, scan)
       IN  CASE enc.type = "Base64" ->
                  \* chunks(76 - bytes_written): the subtraction overflows above
                  \* 76 (a panic with overflow checks, a huge chunk size
                  \* without), and chunks(0) panics.
                  /\ \/ bytes_written < 76 /\ pc' = "b64" /\ flag' = 76 - bytes_written
                     \/ bytes_written = 76 /\ pc' = "panic" /\ flag' = 0
                     \/ bytes_written > 76 /\ pc' = "panic" /\ flag' = 0
                     \/ bytes_written > 76 /\ pc' = "b64" /\ flag' = Len(input) + 1
                  /\ UNCHANGED <<output, bytes_written>>
             [] enc.type = "QuotedPrintable" ->
                  /\ pc' = "q"
                  /\ flag' = enc.is_ascii
                  /\ output' = output \o QPrefix(enc.is_ascii)
                  /\ bytes_written' = bytes_written + Len(QPrefix(enc.is_ascii))
             [] OTHER ->
                  /\ pc' = "plain"
                  /\ flag' = FALSE
                  /\ UNCHANGED <<output, bytes_written>>
    /\ pos' = 0
    /\ UNCHANGED <<fn, input, prev_ch, folds, scan>>
    /\ UNCHANGED walkVars
    /\ UNCHANGED msgVars

\* One chunk of the Base64 arm; flag holds the chunk size and pos the offset
\* of the chunk.
TextBase64Chunk ==
    /\ fn = "text_header" /\ pc = "b64"
    /\ pos < Len(input)
    /\ LET last == IF pos + flag < Len(input) THEN pos + flag ELSE Len(input)
           chunk == SubSeq(input, pos + 1, last)
       IN  /\ output' = output \o (IF pos > 0 THEN <<TAB>> ELSE <<>>)
                               \o PrefixUtf8B \o Base64Inline(chunk) \o WordEnd
           /\ pos' = last
    /\ folds' = Append(folds, pos)
    /\ UNCHANGED <<fn, input, flag, bytes_written, prev_ch, pc, scan>>
    /\ UNCHANGED walkVars
    /\ UNCHANGED msgVars

\* One byte of the QuotedPrintable arm.
TextQStep ==
    /\ fn = "text_header" /\ pc = "q"
    /\ pos < Len(input)
    /\ LET ch == At(input, pos)
           brk == bytes_written >= 76 /\ (pos = 0 \/ IsCharBoundary(ch))
           enc == quoted_printable_encode_byte(ch)
       IN  /\ output' = output \o (IF brk THEN WordBreak \o QPrefix(flag) ELSE <<>>) \o enc
           /\ bytes_written' = (IF brk THEN 1 + Len(QPrefix(flag)) ELSE bytes_written) + Len(enc)
           /\ folds' = IF brk THEN Append(folds, pos) ELSE folds
    /\ pos' = pos + 1
    /\ UNCHANGED <<fn, input, flag, prev_ch, pc, scan>>
    /\ UNCHANGED walkVars
    /\ UNCHANGED msgVars

\* One byte of the None arm.
TextPlainStep ==
    /\ fn = "text_header" /\ pc = "plain"
    /\ pos < Len(input)
    /\ LET ch == At(input, pos)
           brk == bytes_written >= 76 /\ IsAsciiWhitespace(ch) /\ pos < Len(input) - 1
       IN  /\ output' = output \o (IF brk THEN FoldBreak ELSE <<>>) \o <<ch>>
           /\ bytes_written' = (IF brk THEN 1 ELSE bytes_written) + 1
    /\ pos' = pos + 1
    /\ UNCHANGED <<fn, input, flag, prev_ch, pc, folds, scan>>
    /\ UNCHANGED walkVars
    /\ UNCHANGED msgVars

\* The end of each arm and Ok(0).
TextEnd ==
    /\ fn = "text_header" /\ pc \in {"b64", "q", "plain"}
    /\ pos = Len(input)
    /\ output' = output \o (CASE pc = "q" -> WordEnd
                              [] pc = "plain" -> CRLF
                              [] OTHER -> <<>>)
    /\ pc' = "done"
    /\ prev_ch' = IF pc = "q" THEN 81 ELSE IF pc = "b64" THEN 66 ELSE 0
    /\ UNCHANGED <<fn, input, flag, pos, bytes_written, folds, scan>>
    /\ UNCHANGED walkVars
    /\ UNCHANGED msgVars

-----------------------------------------------------------------------------
(* Strings of tokens, for the headers and the MIME part writer.            *)

RECURSIVE StrLen(_)
StrLen(toks) == IF Len(toks) = 0 THEN 0 ELSE Len(Head(toks)) + StrLen(Tail(toks))

\* str::eq_ignore_ascii_case, on the names the model uses: both sides in
\* lower case.
Lower(t) ==
    CASE t \in {"Content-Type", "CONTENT-TYPE", "content-type"} -> "content-type"
      [] t \in {"boundary", "BOUNDARY", "Boundary"} -> "boundary"
      [] OTHER -> t

EqIgnoreAsciiCase(a, b) == Lower(a) = Lower(b)

\* A chunk of output: what was written (v, a string of tokens), for which
\* part (p, its id; <<>> when the writer does not know), by which step (k).
Chunk(k, p, v) == [k |-> k, p |-> p, v |-> v]

-----------------------------------------------------------------------------
(* src/headers/content_type.rs, raw.rs, text.rs, message_id.rs             *)

\* The token that stands for text with bytes >= 127.
NonAscii == "\\x80"

\* rfc2047_encode(value, output): what it writes and the length it returns.
\* A value the selector leaves alone is written as it is; any other becomes
\* an encoded-word.
rfc2047_encode(value) ==
    IF \E i \in 1..Len(value) : value[i] = NonAscii
    THEN [out |-> <<"=?utf-8?B?">> \o value \o <<"?=">>, len |-> StrLen(value) + 12]
    ELSE [out |-> value, len |-> StrLen(value)]

\* The attribute loop of ContentType::write_header from attribute i on.
RECURSIVE ContentTypeAttributes(_, _, _)
ContentTypeAttributes(attrs, i, bw) ==
    IF i > Len(attrs) THEN <<>>
    ELSE LET key == attrs[i].key
             value == attrs[i].value
             fold == bw + Len(key) + StrLen(value) + 3 >= 76
             enc == rfc2047_encode(value)
             last == i = Len(attrs)
             bw2 == (IF fold THEN 1 ELSE bw) + enc.len + Len(key) + 1 + (IF last THEN 0 ELSE 2)
         IN  (IF fold THEN <<"\r\n\t">> ELSE <<>>)
                 \o <<key, "=">> \o enc.out
                 \o (IF last THEN <<>> ELSE <<"; ">>)
                 \o ContentTypeAttributes(attrs, i + 1, bw2)

\* ContentType::write_header
ContentTypeWriteHeader(ct, bw) ==
    ct.c_type
        \o (IF ct.attributes # <<>>
            THEN <<"; ">> \o ContentTypeAttributes(ct.attributes, 1, bw + StrLen(ct.c_type) + 2)
            ELSE <<>>)
        \o <<"\r\n">>

\* ContentType::is_text, ContentType::is_attachment
IsText(ct) == Len(ct.c_type) >= 1 /\ ct.c_type[1] = "text/"
IsAttachment(ct) == ct.c_type = <<"attachment">>

\* Raw::write_header: a fold before a whitespace byte once 76 columns are
\* used (a whitespace token is a single space; no other token holds one).
RECURSIVE RawFolded(_, _, _)
RawFolded(raw, i, bw) ==
    IF i > Len(raw) THEN <<>>
    ELSE LET fold == bw >= 76 /\ raw[i] = " " /\ i < Len(raw)
         IN  (IF fold THEN <<"\r\n\t">> ELSE <<>>) \o <<raw[i]>>
                 \o RawFolded(raw, i + 1, (IF fold THEN 1 ELSE bw) + Len(raw[i]))

RawWriteHeader(h, bw) == RawFolded(h.raw, 1, bw) \o <<"\r\n">>

\* Text::write_header for a short ASCII text (the None arm, no fold).
TextWriteHeader(h, bw) == h.raw \o <<"\r\n">>

\* MessageId::write_header for a single id.
MessageIdWriteHeader(h, bw) == <<"<">> \o h.raw \o <<">", "\r\n">>

\* Address::write_header for Address::Address: EmailAddress::write_header
\* and CRLF.  The display name is in c_type (empty for None), the e-mail
\* address in raw.
AddressWriteHeader(h, bw) ==
    LET enc == rfc2047_encode(h.c_type)
        named == IF h.c_type = <<>> THEN <<>>
                 ELSE enc.out \o (IF bw + enc.len + StrLen(h.raw) + 2 >= 76
                                  THEN <<"\r\n\t">> ELSE <<" ">>)
    IN  named \o <<"<">> \o h.raw \o <<">", "\r\n">>

\* Date::write_header: the date in RFC 2822 form (raw; empty when the
\* timestamp is out of range), then CRLF.
DateWriteHeader(h, bw) == h.raw \o <<"\r\n">>

\* HeaderType::write_header
WriteHeader(h, bw) ==
    CASE h.kind = "ContentType" -> ContentTypeWriteHeader(h, bw)
      [] h.kind = "Raw" -> RawWriteHeader(h, bw)
      [] h.kind = "MessageId" -> MessageIdWriteHeader(h, bw)
      [] h.kind = "Address" -> AddressWriteHeader(h, bw)
      [] h.kind = "Date" -> DateWriteHeader(h, bw)
      [] OTHER -> TextWriteHeader(h, bw)

-----------------------------------------------------------------------------
(* The sink: output.write_all(..)?                                         *)

\* A sink accepts `left` more writes and fails the next one; NeverFails
\* stands for a sink without such a limit.  `late` counts the writes that
\* were attempted after a write had failed.
NeverFails == 0 - 1
ReliableSink == [left |-> NeverFails, failed |-> FALSE, late |-> 0]

\* One write_all per token.
RECURSIVE Writes(_)
Writes(chunks) == IF chunks = <<>> THEN 0 ELSE Len(Head(chunks).v) + Writes(Tail(chunks))

\* The chunks with only their first n tokens.
RECURSIVE TakeWrites(_, _)
TakeWrites(chunks, n) ==
    IF chunks = <<>> \/ n = 0 THEN <<>>
    ELSE LET c == Head(chunks)
         IN  IF Len(c.v) <= n THEN <<c>> \o TakeWrites(Tail(chunks), n - Len(c.v))
             ELSE <<[c EXCEPT !.v = SubSeq(c.v, 1, n)]>>

\* The writes of chunks, in order, each followed by `?`: the first write the
\* sink refuses fails and the writes after it are not made.  A sink that
\* has failed before is only written to by code that did not return.
SinkWrite(out, snk, chunks) ==
    LET n == Writes(chunks)
        accepted == IF snk.failed THEN 0
                    ELSE IF snk.left = NeverFails \/ snk.left >= n THEN n
                    ELSE snk.left
    IN  [output |-> out \o TakeWrites(chunks, accepted),
         sink |-> [left |-> IF snk.left = NeverFails THEN NeverFails ELSE snk.left - accepted,
                   failed |-> snk.failed \/ accepted < n,
                   late |-> IF snk.failed THEN snk.late + n ELSE snk.late],
         failed |-> accepted < n,
         accepted |-> accepted]

ReturnsErrNever(failed) == FALSE

\* `?`: return Err(e) to the caller when the write failed.
ReturnsErr(failed) == failed

-----------------------------------------------------------------------------
(* src/mime.rs                                                             *)

NoBoundary == <<>>
Some(b) == <<b>>

HexDigits == <<"0", "1", "2", "3", "4", "5", "6", "7", "8", "9", "a", "b", "c", "d", "e", "f">>

\* {:x}
RECURSIVE LowerHex(_)
LowerHex(n) == IF n < 16 THEN HexDigits[n + 1] ELSE LowerHex(n \div 16) \o HexDigits[(n % 16) + 1]

MixCounterIgnored(h, c) == ((h * 31765) % (2 ^ 16))

\* hash.wrapping_add(c).wrapping_mul(11400714819323198485): the low 16 bits
\* of the 64-bit result, which are those of the product of the low 16 bits
\* (11400714819323198485 = 0x9E3779B97F4A7C15, and 0x7C15 = 31765).
MixCounter(h, c) == ((((h + c) % (2 ^ 16)) * 31765) % (2 ^ 16))

\* make_boundary(): "{:x}_{:x}_{:x}" of the clock, the mixed counter and the
\* hash; the counter is advanced by the caller of this operator.
make_boundary(now, h, c) ==
    <<LowerHex(now) \o "_" \o LowerHex(MixCounter(h, c)) \o "_" \o LowerHex(h)>>

\* "\r\n--" boundary "\r\n"
OpenDelimiter(b) == Chunk("delimiter", <<>>, <<"\r\n--">> \o b \o <<"\r\n">>)

CloseDelimiterWithoutDashes(b) == Chunk("delimiter", <<>>, <<"\r\n--">> \o b \o <<"\r\n">>)

\* "\r\n--" boundary "--\r\n"
CloseDelimiter(b) == Chunk("delimiter", <<>>, <<"\r\n--">> \o b \o <<"--\r\n">>)

\* if let Some(boundary) = boundary.as_ref() { ... }
DelimiterBefore(bnd) == IF bnd # NoBoundary THEN <<OpenDelimiter(bnd[1])>> ELSE <<>>

\* header_name, then ": "
NameChunk(part, h) == Chunk("name", part.id, <<h.name, ": ">>)

\* The header loop of the Text and Binary arms.
RECURSIVE LeafHeaders(_, _)
LeafHeaders(part, i) ==
    IF i > Len(part.headers) THEN <<>>
    ELSE LET h == part.headers[i]
         IN  <<NameChunk(part, h), Chunk("value", part.id, WriteHeader(h, Len(h.name) + 2))>>
                 \o LeafHeaders(part, i + 1)

\* is_attachment after the header loop: some Content-Disposition header is
\* a ContentType value equal to "attachment".
PartIsAttachment(part) ==
    \E i \in 1..Len(part.headers) :
        /\ part.headers[i].name = "Content-Disposition"
        /\ part.headers[i].kind = "ContentType"
        /\ IsAttachment(part.headers[i])

PartIsTextNever(part) == FALSE

\* is_text after the header loop of the Binary arm.
PartIsText(part) ==
    \E i \in 1..Len(part.headers) :
        /\ part.headers[i].name = "Content-Type"
        /\ part.headers[i].kind = "ContentType"
        /\ IsText(part.headers[i])

\* The bytes of the bodies the sample parts carry: "", "hi\n", two deltas,
\* "h " (trailing space), "\n" and e-acute before six letters.
BodyBytes(name) ==
    CASE name = "ascii" -> <<104, 105, LF>>
      [] name = "accent" -> <<233, 97, 97, 97, 97, 97, 97>>
      [] name = "utf8" -> <<206, 180, 206, 180>>
      [] name = "trail" -> <<104, SP>>
      [] name = "newline" -> <<LF>>
      [] OTHER -> <<>>

\* base64_encode(binary, output, false) after its header
Base64Body(part) ==
    << Chunk("cte", part.id, <<"Content-Transfer-Encoding: ", "base64", "\r\n\r\n">>),
       Chunk("body", part.id, <<part.body, "base64", "non-inline">>) >>

\* detect_encoding(input, output, is_body)
detect_encoding(part, is_body) ==
    LET mode == IF is_body THEN "body" ELSE "attachment"
    IN  CHOOSE r \in {
          CASE enc.type = "Base64" -> Base64Body(part)
            [] enc.type = "QuotedPrintable" ->
                 << Chunk("cte", part.id, <<"Content-Transfer-Encoding: ", "quoted-printable", "\r\n\r\n">>),
                    Chunk("body", part.id, <<part.body, "quoted-printable", mode>>) >>
            [] OTHER ->
                 << Chunk("cte", part.id, <<"Content-Transfer-Encoding: ", "7bit", "\r\n\r\n">>),
                    Chunk("body", part.id, <<part.body, "7bit", mode>>) >>
          : enc \in {get_encoding_type(BodyBytes(part.body), FALSE)}} : TRUE

BareLFAlways(ch, prev) == ch = LF

\* if *ch == b'\n' && prev_ch != b'\r'
BareLF(ch, prev) == ch = LF /\ prev # CR

\* detect_encoding(input, output, is_body) on the bytes of a body, up to its
\* loop: the match on the selector's result, the Content-Transfer-Encoding
\* header (kept in scan.cte) and, but for a 7bit body in body mode, the
\* whole body.
DetectEncodingBegin ==
    /\ fn = "detect_encoding" /\ pc = "begin"
    /\ \E enc \in {get_encoding_type(input, FALSE)} :
           CASE enc.type = "Base64" ->
                  /\ scan' = [cte |-> "base64"]
                  /\ output' = base64_encode_mime(input, FALSE)
                  /\ pc' = "done"
             [] enc.type = "QuotedPrintable" ->
                  /\ scan' = [cte |-> "quoted-printable"]
                  /\ output' = quoted_printable_encode(input, flag)
                  /\ pc' = "done"
             [] OTHER ->
                  /\ scan' = [cte |-> "7bit"]
                  /\ output' = IF flag THEN <<>> ELSE input
                  /\ pc' = IF flag THEN "loop" ELSE "done"
    /\ UNCHANGED <<fn, input, flag, pos, bytes_written, prev_ch, folds>>
    /\ UNCHANGED walkVars
    /\ UNCHANGED msgVars

\* One iteration of `for ch in input` of the 7bit arm in body mode.
SevenBitStep ==
    /\ fn = "detect_encoding" /\ pc = "loop"
    /\ pos < Len(input)
    /\ output' = output \o (IF BareLF(At(input, pos), prev_ch) THEN <<CR>> ELSE <<>>)
                        \o <<At(input, pos)>>
    /\ prev_ch' = At(input, pos)
    /\ pos' = pos + 1
    /\ UNCHANGED <<fn, input, flag, bytes_written, pc, folds, scan>>
    /\ UNCHANGED walkVars
    /\ UNCHANGED msgVars

\* Ok(())
DetectEncodingReturn ==
    /\ fn = "detect_encoding" /\ pc = "loop"
    /\ pos = Len(input)
    /\ pc' = "done"
    /\ UNCHANGED <<fn, input, flag, pos, bytes_written, prev_ch, output, folds, scan>>
    /\ UNCHANGED walkVars
    /\ UNCHANGED msgVars

\* raw.raw.find("boundary=\""): the index of the first match, 0 for None.
RawFindBoundary(raw) ==
    IF \E i \in 1..(Len(raw) - 1) : raw[i] = "boundary=" /\ raw[i + 1] = "\""
    THEN CHOOSE i \in 1..(Len(raw) - 1) :
            /\ raw[i] = "boundary=" /\ raw[i + 1] = "\""
            /\ \A j \in 1..(i - 1) : ~(raw[j] = "boundary=" /\ raw[j + 1] = "\"")
    ELSE 0

\* raw.raw[pos..].split('"').nth(1): the text between the quote at pos + 1
\* and the next quote, or the end of the string.  (It is never None: the
\* match at pos holds a quote.)
RawQuotedAt(raw, i) ==
    LET from == i + 2
        quotes == {j \in from..Len(raw) : raw[j] = "\""}
        last == IF quotes = {} THEN Len(raw)
                ELSE (CHOOSE j \in quotes : \A q \in quotes : j <= q) - 1
    IN  SubSeq(raw, from, last)

\* .position(|(a, _)| a.eq_ignore_ascii_case("boundary")): 0 for None.
BoundaryAttribute(attrs) ==
    IF \E i \in 1..Len(attrs) : EqIgnoreAsciiCase(attrs[i].key, "boundary")
    THEN CHOOSE i \in 1..Len(attrs) :
            /\ EqIgnoreAsciiCase(attrs[i].key, "boundary")
            /\ \A j \in 1..(i - 1) : ~EqIgnoreAsciiCase(attrs[j].key, "boundary")
    ELSE 0

MultipartContentTypeAnyValue(part, h, fresh) ==
    [chunks |-> <<Chunk("value", part.id, WriteHeader(h, 14))>>,
     boundary |-> Some(fresh), made |-> TRUE, panic |-> FALSE]

\* The match on the first Content-Type header of a Multipart: what is
\* written for the value, the boundary, and whether make_boundary was called.
MultipartContentType(part, h, fresh) ==
    CASE h.kind = "ContentType" ->
            LET bpos == BoundaryAttribute(h.attributes)
                ct == IF bpos # 0 THEN h
                      ELSE [h EXCEPT !.attributes = Append(@, [key |-> "boundary", value |-> fresh])]
                at == IF bpos # 0 THEN bpos ELSE Len(ct.attributes)
            IN  [chunks |-> <<Chunk("value", part.id, ContentTypeWriteHeader(ct, 14))>>,
                 boundary |-> Some(ct.attributes[at].value),
                 made |-> bpos = 0,
                 panic |-> FALSE]
      [] h.kind = "Raw" ->
            LET rpos == RawFindBoundary(h.raw)
            IN  IF rpos # 0
                THEN [chunks |-> <<>>,
                      boundary |-> Some(RawQuotedAt(h.raw, rpos)),
                      made |-> FALSE,
                      panic |-> FALSE]
                ELSE [chunks |-> <<Chunk("value", part.id,
                                         h.raw \o <<"; boundary=\"">> \o fresh \o <<"\"", "\r\n">>)>>,
                      boundary |-> Some(fresh),
                      made |-> TRUE,
                      panic |-> FALSE]
      [] OTHER ->
            [chunks |-> <<>>, boundary |-> NoBoundary, made |-> FALSE, panic |-> TRUE]

FirstContentTypeNever(found_ct, name) == FALSE

\* !found_ct && header_name.eq_ignore_ascii_case("Content-Type")
FirstContentType(found_ct, name) == ~found_ct /\ EqIgnoreAsciiCase(name, "Content-Type")

\* The header loop of the Multipart arm from header i on; acc holds the
\* chunks written, boundary, found_ct, whether make_boundary was called, and
\* whether the loop panicked.
RECURSIVE MultipartHeaders(_, _, _, _)
MultipartHeaders(part, i, fresh, acc) ==
    IF i > Len(part.headers) \/ acc.panic THEN acc
    ELSE LET h == part.headers[i]
             name == NameChunk(part, h)
         IN  IF FirstContentType(acc.found_ct, h.name)
             THEN LET r == MultipartContentType(part, h, fresh)
                  IN  MultipartHeaders(part, i + 1, fresh,
                          [chunks |-> acc.chunks \o <<name>> \o r.chunks,
                           boundary |-> r.boundary,
                           found_ct |-> ~r.panic,
                           made |-> r.made,
                           panic |-> r.panic])
             ELSE MultipartHeaders(part, i + 1, fresh,
                      [acc EXCEPT !.chunks = @ \o <<name, Chunk("value", part.id,
                                                         WriteHeader(h, Len(h.name) + 2))>>])

\* if !found_ct { ... }: the synthesized multipart/mixed header.
SynthesizedContentType(part, fresh) ==
    << Chunk("name", part.id, <<"Content-Type", ": ">>),
       Chunk("value", part.id,
             ContentTypeWriteHeader(
                 [c_type |-> <<"multipart/mixed">>,
                  attributes |-> <<[key |-> "boundary", value |-> fresh]>>], 14)) >>

SuspendDropsSiblings(stk, iter, bnd) ==
    IF bnd # NoBoundary THEN Append(stk, [it |-> <<>>, boundary |-> bnd]) ELSE stk

\* if boundary.is_some() { stack.push((it, boundary.take())); }
Suspend(stk, iter, bnd) ==
    IF bnd # NoBoundary THEN Append(stk, [it |-> iter, boundary |-> bnd]) ELSE stk

ResumeKeepsBoundary(stk, bnd) == [it |-> stk[Len(stk)].it, boundary |-> bnd]

\* (prev_it, prev_boundary) = stack.pop(); it = prev_it; boundary = prev_boundary
Resume(stk, bnd) == [it |-> stk[Len(stk)].it, boundary |-> stk[Len(stk)].boundary]

\* The clock values SystemTime::now() may return at a call.
ClockSamples == {0, 1}

\* The writes up to the call of make_boundary in the Multipart arm: it is
\* called right after the name of the first Content-Type header (the
\* attached one, or the synthesized one) has been written.
WritesBeforeMake(chunks) ==
    LET named == {j \in 1..Len(chunks) :
                    chunks[j].k = "name" /\ EqIgnoreAsciiCase(chunks[j].v[1], "Content-Type")}
    IN  IF named = {} THEN Writes(chunks)
        ELSE Writes(SubSeq(chunks, 1, CHOOSE j \in named : \A q \in named : j <= q))

LoopBreaksAlways(stk) == TRUE

\* if let Some(..) = stack.pop() { .. } else { break }
LoopBreaks(stk) == stk = <<>>

\* while let Some(part) = it.next(), BodyPart::Text arm
WriteText ==
    /\ fn = "write_part" /\ pc = "loop"
    /\ it # <<>> /\ Head(it).kind = "Text"
    /\ \E w \in {SinkWrite(output, sink,
                            DelimiterBefore(boundary)
                                \o LeafHeaders(Head(it), 1)
                                \o detect_encoding(Head(it), ~PartIsAttachment(Head(it))))} :
           /\ output' = w.output
           /\ sink' = w.sink
           /\ pc' = IF ReturnsErr(w.failed) THEN "err" ELSE pc
    /\ it' = Tail(it)
    /\ UNCHANGED <<stack, boundary, counter, hash, resolved, builder, column>>
    /\ UNCHANGED <<fn, input, flag, pos, bytes_written, prev_ch, folds, scan>>

\* while let Some(part) = it.next(), BodyPart::Binary arm
WriteBinary ==
    /\ fn = "write_part" /\ pc = "loop"
    /\ it # <<>> /\ Head(it).kind = "Binary"
    /\ \E w \in {SinkWrite(output, sink,
                            DelimiterBefore(boundary)
                                \o LeafHeaders(Head(it), 1)
                                \o (IF ~PartIsText(Head(it)) THEN Base64Body(Head(it))
                                    ELSE detect_encoding(Head(it), ~PartIsAttachment(Head(it)))))} :
           /\ output' = w.output
           /\ sink' = w.sink
           /\ pc' = IF ReturnsErr(w.failed) THEN "err" ELSE pc
    /\ it' = Tail(it)
    /\ UNCHANGED <<stack, boundary, counter, hash, resolved, builder, column>>
    /\ UNCHANGED <<fn, input, flag, pos, bytes_written, prev_ch, folds, scan>>

\* while let Some(part) = it.next(), BodyPart::Multipart arm
WriteMultipart ==
    /\ fn = "write_part" /\ pc = "loop"
    /\ it # <<>> /\ Head(it).kind = "Multipart"
    /\ \E now \in ClockSamples :
       \E fresh \in {make_boundary(now, hash, counter)} :
       \E loop \in {MultipartHeaders(Head(it), 1, fresh,
                        [chunks |-> <<>>, boundary |-> NoBoundary, found_ct |-> FALSE,
                         made |-> FALSE, panic |-> FALSE])} :
       \E chunks \in {DelimiterBefore(boundary) \o loop.chunks
                        \o (IF loop.panic THEN <<>>
                            ELSE (IF loop.found_ct THEN <<>>
                                  ELSE SynthesizedContentType(Head(it), fresh))
                                   \o <<Chunk("blank", Head(it).id, <<"\r\n">>)>>)} :
       \E w \in {SinkWrite(output, sink, chunks)} :
        LET part == Head(it)
            made == loop.made \/ (~loop.panic /\ ~loop.found_ct)
            bnd == IF loop.found_ct THEN loop.boundary ELSE Some(fresh)
        IN  /\ output' = w.output
            /\ sink' = w.sink
            /\ stack' = Suspend(stack, Tail(it), boundary)
            /\ counter' = IF made /\ w.accepted >= WritesBeforeMake(chunks)
                          THEN counter + 1 ELSE counter
            /\ IF ReturnsErr(w.failed)
               THEN /\ pc' = "err"
                    /\ boundary' = NoBoundary
                    /\ it' = Tail(it)
                    /\ UNCHANGED resolved
               ELSE IF loop.panic
               THEN /\ pc' = "panic"
                    /\ boundary' = NoBoundary
                    /\ it' = Tail(it)
                    /\ UNCHANGED resolved
               ELSE /\ pc' = pc
                    /\ boundary' = bnd
                    /\ it' = part.parts
                    /\ resolved' = Append(resolved,
                                          [id |-> part.id, boundary |-> bnd[1], made |-> made])
    /\ UNCHANGED <<fn, input, flag, pos, bytes_written, prev_ch, folds, scan, hash, builder, column>>

\* The iterator is exhausted: the close delimiter, then the pop or the break
\* and Ok(0).
EndOfList ==
    /\ fn = "write_part" /\ pc = "loop"
    /\ it = <<>>
    /\ \E w \in {SinkWrite(output, sink,
                            IF boundary # NoBoundary THEN <<CloseDelimiter(boundary[1])>>
                            ELSE <<>>)} :
           /\ output' = w.output
           /\ sink' = w.sink
           /\ IF ReturnsErr(w.failed)
              THEN /\ pc' = "err"
                   /\ UNCHANGED <<it, boundary, stack>>
              ELSE IF ~LoopBreaks(stack)
              THEN /\ it' = Resume(stack, boundary).it
                   /\ boundary' = Resume(stack, boundary).boundary
                   /\ stack' = SubSeq(stack, 1, Len(stack) - 1)
                   /\ pc' = pc
              ELSE /\ pc' = "done"
                   /\ UNCHANGED <<it, boundary, stack>>
    /\ UNCHANGED <<counter, hash, resolved, builder, column>>
    /\ UNCHANGED <<fn, input, flag, pos, bytes_written, prev_ch, folds, scan>>

-----------------------------------------------------------------------------
(* The encoders run on bounded inputs.                                     *)

SampleBytes == {TAB, LF, CR, SP, 61, 97, 200}

\* byte k of a patterned input of a given seed
PatternByte(seed, k) == (seed + 37 * k) % 256

Pattern(seed, n) == [k \in 1..n |-> PatternByte(seed, k)]

Base64Inputs ==
    SeqsUpTo(SampleBytes \cup {0, 255}, MaxShortLen)
        \cup {Pattern(seed, n) : seed \in {0, 251}, n \in 0..MaxLongLen}

QuotedPrintableInputs ==
    SeqsUpTo(SampleBytes, MaxShortLen)
        \cup {h \o Rep(<<b>>, n) \o t :
                h \in {<<>>, <<CR, LF, LF>>, <<CR, 61, LF>>},
                b \in {97, 61},
                n \in (MaxRun - 4)..MaxRun,
                t \in {<<>>, <<SP>>, <<LF, 97>>}}

\* Every short string over the bytes the Q encoding tells apart, and runs
\* longer than a line.
InlineInputs ==
    SeqsUpTo(SampleBytes \cup {63, 95}, MaxShortLen)
        \cup {Rep(<<b>>, n) : b \in {97, SP, 61}, n \in (MaxRun - 4)..MaxRun}

\* Bodies: every short string over the sample bytes, and every string of
\* up to MaxBodyLen bytes over CR, LF and a letter.
BodyInputs ==
    SeqsUpTo(SampleBytes, MaxShortLen) \cup SeqsUpTo({CR, LF, 97}, MaxBodyLen)

InitEnc ==
    /\ fn \in {"base64", "quoted_printable", "inline_quoted_printable", "detect_encoding"}
    /\ input \in (CASE fn = "base64" -> Base64Inputs
                    [] fn = "quoted_printable" -> QuotedPrintableInputs
                    [] fn = "detect_encoding" -> BodyInputs
                    [] OTHER -> InlineInputs)
    /\ flag \in (IF fn = "inline_quoted_printable" THEN {TRUE} ELSE BOOLEAN)
    /\ pos = 0
    /\ bytes_written = 0
    /\ prev_ch = 0
    /\ output = <<>>
    /\ pc = IF fn = "detect_encoding" THEN "begin" ELSE "loop"
    /\ folds = <<>>
    /\ scan = <<>>
    /\ it = <<>> /\ stack = <<>> /\ boundary = <<>>
    /\ counter = 0 /\ hash = 0 /\ resolved = <<>>
    /\ builder = NoBuilder /\ sink = ReliableSink /\ column = 0

NextEnc ==
    \/ Base64Loop
    \/ Base64Finish
    \/ QuotedPrintableStep
    \/ QuotedPrintableReturn
    \/ InlineQuotedPrintableStep
    \/ InlineQuotedPrintableReturn
    \/ DetectEncodingBegin
    \/ SevenBitStep
    \/ DetectEncodingReturn

SpecEnc == InitEnc /\ [][NextEnc]_vars

-----------------------------------------------------------------------------
(* Reference definitions for the encoder properties.                       *)

\* s without its CR LF pairs.
\* Where the CR LF pairs of s start (they cannot overlap).
CRLFAt(s) == {i \in 1..(Len(s) - 1) : s[i] = CR /\ s[i + 1] = LF}

\* A byte that stands for "nothing" in a sequence of marks.
Nothing == 0 - 2
IsSomething(v) == v # Nothing

StripCRLF(s) ==
    LET pairs == CRLFAt(s)
    IN  SelectSeq([i \in 1..Len(s) |-> IF i \in pairs \/ (i - 1) \in pairs THEN Nothing ELSE s[i]],
                  IsSomething)

\* The pieces of s between its CR LF pairs (one more piece than pairs).
SplitCRLF(s) ==
    LET pairs == CRLFAt(s)
        n == Cardinality(pairs)
        Nth(k) == CHOOSE q \in pairs : Cardinality({r \in pairs : r < q}) = k - 1
    IN  [k \in 1..(n + 1) |->
            SubSeq(s, IF k = 1 THEN 1 ELSE Nth(k - 1) + 2,
                      IF k = n + 1 THEN Len(s) ELSE Nth(k) - 1)]

\* RFC 4648 section 4: 24-bit groups cut into four 6-bit indexes.
Sextets(n) == << B64Alphabet[((n \div 262144) % 64) + 1],
                 B64Alphabet[((n \div 4096) % 64) + 1],
                 B64Alphabet[((n \div 64) % 64) + 1],
                 B64Alphabet[(n % 64) + 1] >>

\* The encoding: one quad per group of three bytes, the last group filled
\* with zero bits and its unused characters replaced by "=".
Rfc4648(s) ==
    LET n == Len(s)
        byte(i) == IF i <= n THEN s[i] ELSE 0
        quad(g) == Sextets(byte(3 * g - 2) * 65536 + byte(3 * g - 1) * 256 + byte(3 * g))
    IN  [k \in 1..(4 * ((n + 2) \div 3)) |->
            LET g == ((k - 1) \div 4) + 1
                j == ((k - 1) % 4) + 1
            IN  IF 3 * (g - 1) + j > n + 1 THEN 61 ELSE quad(g)[j]]

\* The RFC 4648 decoder; <<-1>> stands for "not decodable".
B64Value(c) == IF \E k \in 1..64 : B64Alphabet[k] = c
               THEN (CHOOSE k \in 1..64 : B64Alphabet[k] = c) - 1
               ELSE -1

Rfc4648Decode(s) ==
    LET n == Len(s)
        pad == IF n >= 2 /\ s[n] = 61 /\ s[n - 1] = 61 THEN 2
               ELSE IF n >= 1 /\ s[n] = 61 THEN 1 ELSE 0
        v(i) == IF i > n - pad THEN 0 ELSE B64Value(s[i])
        wellFormed ==
            /\ n % 4 = 0
            /\ \A i \in 1..(n - pad) : B64Value(s[i]) >= 0
            /\ pad = 2 => v(n - 2) % 16 = 0
            /\ pad = 1 => v(n - 1) % 4 = 0
    IN  IF ~wellFormed THEN <<0 - 1>>
        ELSE [m \in 1..((n \div 4) * 3 - pad) |->
                LET g == 4 * ((m - 1) \div 3)
                    j == (m - 1) % 3
                IN  IF j = 0 THEN v(g + 1) * 4 + v(g + 2) \div 16
                    ELSE IF j = 1 THEN (v(g + 2) % 16) * 16 + v(g + 3) \div 4
                    ELSE (v(g + 3) % 4) * 64 + v(g + 4)]

\* The quoted-printable decoder of RFC 2045 section 6.7: "=" CR LF is a soft
\* break, "=XX" is the byte XX; -1 stands for "not decodable".
HexValue(c) == IF c >= 48 /\ c <= 57 THEN c - 48
               ELSE IF c >= 65 /\ c <= 70 THEN c - 55
               ELSE -1

\* The two characters after an "=" are hexadecimal digits or CR LF, never
\* "=": in a decodable text every "=" opens a token, and a byte is consumed
\* by a token exactly when one of the two bytes before it is "=".
QPDecode(s) ==
    LET n == Len(s)
        opens(i) == i >= 1 /\ s[i] = 61
        softBreak(i) == s[i + 1] = CR /\ s[i + 2] = LF
        escape(i) == HexValue(s[i + 1]) >= 0 /\ HexValue(s[i + 2]) >= 0
        decodable == \A i \in 1..n : opens(i) => (i + 2 <= n /\ (softBreak(i) \/ escape(i)))
    IN  IF ~decodable THEN <<0 - 1>>
        ELSE SelectSeq([i \in 1..n |->
                          IF opens(i)
                          THEN IF softBreak(i) THEN Nothing
                               ELSE HexValue(s[i + 1]) * 16 + HexValue(s[i + 2])
                          ELSE IF opens(i - 1) \/ opens(i - 2) THEN Nothing
                          ELSE s[i]],
                       IsSomething)

Has(s, b) == \E i \in 1..Len(s) : s[i] = b

Base64Done == fn = "base64" /\ pc = "done"
QPDone == fn = "quoted_printable" /\ pc = "done"

-----------------------------------------------------------------------------
(* Properties of the encoders (specification SpecEnc).                     *)

\* C5: the output of base64_encode_mime with its CRLF pairs removed is the
\* RFC 4648 encoding of the input, with "=" padding, and decodes to the
\* input, in inline and in non-inline mode.
C5_Base64IsRfc4648 ==
    Base64Done =>
        /\ StripCRLF(output) = Rfc4648(input)
        /\ Rfc4648Decode(StripCRLF(output)) = input

C5_Witness ==
    /\ Base64Done /\ ~flag
    /\ Len(input) > 57 /\ Len(input) % 3 = 1
    /\ Has(input, 255)

\* Non-inline output as lines: every piece but the last of the split is a
\* line, and the last piece is empty when the output ends with CRLF.
LinesWellFormed(out) ==
    LET pieces == SplitCRLF(out)
        n == Len(pieces) - 1
    IN  /\ n >= 1
        /\ pieces[n + 1] = <<>>
        /\ \A k \in 1..(n - 1) : Len(pieces[k]) = 76
        /\ Len(pieces[n]) >= 1 /\ Len(pieces[n]) <= 76
        /\ \A k \in 1..n : ~Has(pieces[k], CR) /\ ~Has(pieces[k], LF)

\* C6 as stated: for every input, non-inline output is a sequence of
\* CRLF-terminated lines, all of 76 characters but the last, which has 1 to
\* 76; inline output holds no CR and no LF.
C6_Original ==
    Base64Done =>
        IF flag THEN ~Has(output, CR) /\ ~Has(output, LF)
        ELSE LinesWellFormed(output)

\* C6, amended: the same for every non-empty input; for the empty input the
\* output is empty (no line and no CRLF at all).
C6_LinesOfNonEmptyInput ==
    Base64Done =>
        IF flag THEN ~Has(output, CR) /\ ~Has(output, LF)
        ELSE IF input = <<>> THEN output = <<>>
        ELSE LinesWellFormed(output)

C6_Witness ==
    /\ Base64Done /\ ~flag
    /\ Len(input) = 114
    /\ Len(output) = 156

\* C7: no line of a non-inline encoder output (base64 with is_inline = false,
\* quoted-printable in body and in attachment mode), the soft-break "="
\* included, is longer than 76 characters.
C7_NoLineOver76 ==
    ((Base64Done /\ ~flag) \/ QPDone) =>
        \A k \in 1..Len(SplitCRLF(output)) : Len(SplitCRLF(output)[k]) <= 76

\* C8: decoding the attachment-mode output of quoted_printable_encode
\* (dropping "=" CRLF soft breaks, reversing =XX) gives the input back.
C8_AttachmentRoundTrip ==
    (QPDone /\ ~flag) => QPDecode(output) = input

C8_Witness ==
    /\ QPDone /\ ~flag
    /\ Len(input) > 76
    /\ Has(input, LF) /\ Has(input, CR) /\ Has(input, 61)

\* C9: in body mode every LF of the output of quoted_printable_encode is
\* immediately preceded by CR.
C9_EveryLFAfterCR ==
    (QPDone /\ flag) =>
        \A i \in 1..Len(output) : output[i] = LF => (i > 1 /\ output[i - 1] = CR)

-----------------------------------------------------------------------------
(* src/headers/url.rs, src/headers/message_id.rs                           *)

UrlCloserAlwaysComma(p, n) == <<62, 44>>

\* ">," after every url but the last, ">" after the last.
UrlCloser(p, n) == IF p < n - 1 THEN <<62, 44>> ELSE <<62>>

\* One iteration of `for (pos, url) in self.url.iter().enumerate()`.
UrlStep ==
    /\ fn = "url_header" /\ pc = "loop"
    /\ pos < Len(input)
    /\ LET url == At(input, pos)
           fold == pos > 0 /\ bytes_written + Len(url) + 2 >= 76
           before == IF pos = 0 THEN <<>> ELSE IF fold THEN <<CR, LF, TAB>> ELSE <<SP>>
           bw == IF pos = 0 THEN bytes_written ELSE IF fold THEN 1 ELSE bytes_written + 1
       IN  /\ output' = output \o before \o <<60>> \o url \o UrlCloser(pos, Len(input))
           /\ bytes_written' = bw + Len(url) + (IF pos < Len(input) - 1 THEN 3 ELSE 2)
    /\ pos' = pos + 1
    /\ UNCHANGED <<fn, input, flag, prev_ch, pc, folds, scan>>
    /\ UNCHANGED walkVars
    /\ UNCHANGED msgVars

\* One iteration of `for (pos, id) in self.id.iter().enumerate()`.
MessageIdStep ==
    /\ fn = "message_id_header" /\ pc = "loop"
    /\ pos < Len(input)
    /\ LET id == At(input, pos)
           bw == bytes_written + Len(id) + 2
           fold == bw >= 76 /\ pos < Len(input) - 1
       IN  /\ output' = output \o <<60>> \o id \o <<62>> \o (IF fold THEN <<CR, LF, TAB>> ELSE <<>>)
           /\ bytes_written' = IF fold THEN 0 ELSE bw
    /\ pos' = pos + 1
    /\ UNCHANGED <<fn, input, flag, prev_ch, pc, folds, scan>>
    /\ UNCHANGED walkVars
    /\ UNCHANGED msgVars

\* if bytes_written > 0 { "\r\n" }; Ok(0)
ListEnd ==
    /\ fn \in {"url_header", "message_id_header"} /\ pc = "loop"
    /\ pos = Len(input)
    /\ output' = output \o (IF bytes_written > 0 THEN CRLF ELSE <<>>)
    /\ pc' = "done"
    /\ UNCHANGED <<fn, input, flag, pos, bytes_written, prev_ch, folds, scan>>
    /\ UNCHANGED walkVars
    /\ UNCHANGED msgVars

-----------------------------------------------------------------------------
(* Text::write_header run on bounded inputs (specification SpecText).      *)

\* Characters of the sample texts, in UTF-8: x, space, =, ?, CR, LF, the
\* two-byte delta (U+03B4) and the three-byte euro sign (U+20AC).
Utf8Delta == <<206, 180>>
Utf8Euro == <<226, 130, 172>>
SampleChars == {<<120>>, <<SP>>, <<61>>, <<63>>, <<CR>>, <<LF>>, Utf8Delta, Utf8Euro}

RECURSIVE Flatten(_)
Flatten(ss) == IF Len(ss) = 0 THEN <<>> ELSE Head(ss) \o Flatten(Tail(ss))

\* Every text of up to MaxChars sample characters.
ShortTexts == {Flatten(w) : w \in SeqsUpTo(SampleChars, MaxChars)}

\* A run of x, then up to two multi-byte characters, then perhaps more x.
LongTexts ==
    {Rep(<<120>>, n) \o Flatten(w) \o t :
        n \in (MaxTextRun - 16)..MaxTextRun,
        w \in SeqsUpTo({Utf8Delta, Utf8Euro}, 2),
        t \in {<<>>, <<120, 120>>}}

\* Non-ASCII only, which the selector sends to base64.
DeltaTexts == {Rep(Utf8Delta, k) \o t : k \in 0..MaxDeltas, t \in {<<>>, <<120>>}}

\* Words of seven x separated by spaces, which need no encoding.
PlainTexts == {Rep(<<120, 120, 120, 120, 120, 120, 120, SP>>, m) \o <<120>> : m \in 0..MaxWords}

\* Columns already used on the line: header_name.len() + 2.
StartColumns == {0, 9, 76, 78}

InitText ==
    /\ fn = "text_header"
    /\ input \in ShortTexts \cup LongTexts \cup DeltaTexts \cup PlainTexts
    /\ bytes_written \in StartColumns
    /\ flag = FALSE
    /\ pos = 0
    /\ prev_ch = 0
    /\ output = <<>>
    /\ pc = "start"
    /\ folds = <<>>
    /\ scan = EncodingScanInit(input, TRUE)
    /\ it = <<>> /\ stack = <<>> /\ boundary = <<>>
    /\ counter = 0 /\ hash = 0 /\ resolved = <<>>
    /\ builder = NoBuilder /\ sink = ReliableSink /\ column = bytes_written

NextText ==
    \/ TextScanStep
    \/ TextBegin
    \/ TextBase64Chunk
    \/ TextQStep
    \/ TextPlainStep
    \/ TextEnd

SpecText == InitText /\ [][NextText]_vars

\* A UTF-8 continuation byte: 10xxxxxx.
IsContinuation(b) == b >= 128 /\ b <= 191

\* The arm of write_header that ran (TextEnd leaves "Q" or "B" in prev_ch).
InQArm == fn = "text_header" /\ (pc = "q" \/ (pc = "done" /\ prev_ch = 81))

\* C10: when Text::write_header emits Q encoded-words, a new encoded-word
\* starts only before a byte that is not a UTF-8 continuation byte.
C10_QWordsStartAtCharBoundary ==
    InQArm => \A k \in 1..Len(folds) : ~IsContinuation(At(input, folds[k]))

\* A fold that had to wait: the byte before it ends a multi-byte character
\* and the line it closes ran past column 76.
C10_Witness ==
    /\ InQArm /\ pc = "done"
    /\ \E k \in 1..Len(folds) :
          /\ folds[k] >= 2
          /\ IsContinuation(At(input, folds[k] - 1))
    /\ \E k \in 1..Len(SplitCRLF(output)) : Len(SplitCRLF(output)[k]) > 78

InBArm == fn = "text_header" /\ (pc = "b64" \/ (pc = "done" /\ prev_ch = 66))

\* C20: when Text::write_header emits B encoded-words, every encoded-word
\* starts at a UTF-8 character boundary of the text: no chunk begins with a
\* continuation byte.
C20_BWordsStartAtCharBoundary ==
    InBArm => \A k \in 1..Len(folds) : ~IsContinuation(At(input, folds[k]))

\* The length of line k of the output, with the columns the caller had
\* already used on the first line.
TextLineLen(k) == (IF k = 1 THEN column ELSE 0) + Len(SplitCRLF(output)[k])

\* C21: when Text::write_header has emitted encoded-words (Q or B), every
\* line of the header, counted from the starting column on the first line
\* and with the leading tab on continuation lines, without its CRLF, is at
\* most 76 bytes long.
C21_EncodedLinesAtMost76 ==
    (pc = "done" /\ (InQArm \/ InBArm)) =>
        \A k \in 1..Len(SplitCRLF(output)) : TextLineLen(k) <= 76

\* C22: Text::write_header does not panic, whatever the text and the
\* starting column are, in any of its three arms.
C22_TextHeaderNeverPanics == fn = "text_header" => pc # "panic"

\* Byte i of the output ends a line break the writer may make: CR LF
\* followed by a tab (a fold) or by nothing (the end of the header).
EndsOwnBreak(i) ==
    /\ i >= 2
    /\ output[i - 1] = CR /\ output[i] = LF
    /\ (i = Len(output) \/ output[i + 1] = TAB)

\* C23: the header value written by Text::write_header holds CR and LF only
\* as CR LF followed by a tab, or as the CR LF that ends it: no CR or LF of
\* the text is written as it is, so the value cannot start another header
\* line.
C23_NoBareLineBreak ==
    (fn = "text_header" /\ pc = "done") =>
        \A i \in 1..Len(output) :
            /\ output[i] = LF => EndsOwnBreak(i)
            /\ output[i] = CR => (i < Len(output) /\ EndsOwnBreak(i + 1))

-----------------------------------------------------------------------------
(* MimePart::write_part run on bounded trees (specification Spec).         *)

Header(name, kind, c_type, attributes, raw) ==
    [name |-> name, kind |-> kind, c_type |-> c_type, attributes |-> attributes, raw |-> raw]

Attribute(key, value) == [key |-> key, value |-> value]

\* ("Content-Type", ContentType::new(c_type) with attributes)
ContentTypeHeader(c_type, attributes) ==
    Header("Content-Type", "ContentType", c_type, attributes, <<>>)

\* Shapes of n nodes: a leaf is Text or Binary, a Multipart has any number of
\* children, none included.
RECURSIVE TreesOfSize(_), ForestsOfSize(_)
TreesOfSize(n) ==
    IF n = 1
    THEN {[k |-> kind, c |-> <<>>] : kind \in {"Text", "Binary", "Multipart"}}
    ELSE {[k |-> "Multipart", c |-> f] : f \in ForestsOfSize(n - 1)}

ForestsOfSize(n) ==
    IF n = 0 THEN {<<>>}
    ELSE UNION {{<<t>> \o f : t \in TreesOfSize(k), f \in ForestsOfSize(n - k)} : k \in 1..n}

\* The id of a part is its path from the root, as tokens.
IdTokens(id) == [i \in 1..Len(id) |-> ToString(id[i])]

\* The headers the constructors give a part (new_multipart, new_text,
\* new_binary(..).attachment(..)); with profile "named" every multipart names
\* its own boundary, with "same" they all name the same one.
ProfileHeaders(kind, id, profile) ==
    CASE kind = "Text" ->
            <<ContentTypeHeader(<<"text/", "plain">>, <<Attribute("charset", <<"utf-8">>)>>)>>
      [] kind = "Binary" ->
            << ContentTypeHeader(<<"image/png">>, <<>>),
               Header("Content-Disposition", "ContentType", <<"attachment">>,
                      <<Attribute("filename", <<"image.png">>)>>, <<>>) >>
      [] OTHER ->
            IF profile = "ctor" THEN <<ContentTypeHeader(<<"multipart/mixed">>, <<>>)>>
            ELSE IF profile = "named"
            THEN <<ContentTypeHeader(<<"multipart/mixed">>,
                                     <<Attribute("boundary", <<"b">> \o IdTokens(id))>>)>>
            ELSE <<ContentTypeHeader(<<"multipart/mixed">>, <<Attribute("boundary", <<"b">>)>>)>>

RECURSIVE Build(_, _, _)
Build(shape, id, profile) ==
    [id |-> id,
     kind |-> shape.k,
     headers |-> ProfileHeaders(shape.k, id, profile),
     body |-> IF shape.k = "Multipart" THEN "" ELSE "ascii",
     parts |-> [i \in 1..Len(shape.c) |-> Build(shape.c[i], Append(id, i), profile)]]

\* Every tree of up to MaxNodes parts, under each profile.
WalkTrees ==
    {Build(shape, <<>>, profile) :
        shape \in UNION {TreesOfSize(n) : n \in 1..MaxNodes},
        profile \in {"ctor", "named", "same"}}

\* Header lists a caller may attach to a Multipart.
MultipartHeaderLists ==
    { <<>>,
      <<ContentTypeHeader(<<"multipart/mixed">>, <<>>)>>,
      <<ContentTypeHeader(<<"multipart/mixed">>, <<Attribute("boundary", <<"b1">>)>>)>>,
      <<ContentTypeHeader(<<"multipart/related">>,
                          <<Attribute("type", <<"text/html">>), Attribute("BOUNDARY", <<"b2">>),
                            Attribute("start", <<"root">>)>>)>>,
      <<Header("Content-Type", "Raw", <<>>, <<>>, <<"multipart/mixed">>)>>,
      <<Header("Content-Type", "Raw", <<>>, <<>>,
               <<"multipart/mixed;", " ", "boundary=", "\"", "b3", "\"">>)>>,
      <<Header("Content-Type", "Raw", <<>>, <<>>,
               <<"multipart/mixed;", " ", "boundary=", "\"", "b4">>),
        Header("Content-Location", "Raw", <<>>, <<>>, <<"http://a/">>)>>,
      <<ContentTypeHeader(<<"multipart/mixed">>, <<>>),
        ContentTypeHeader(<<"multipart/alternative">>, <<>>)>>,
      <<Header("content-type", "ContentType", <<"multipart/mixed">>, <<>>, <<>>)>>,
      <<Header("Content-Language", "Text", <<>>, <<>>, <<"en">>),
        ContentTypeHeader(<<"multipart/mixed">>, <<>>)>>,
      <<Header("Content-Type", "Text", <<>>, <<>>, <<"multipart/mixed">>)>>,
      <<Header("Content-Type", "MessageId", <<>>, <<>>, <<"id@host">>)>> }

\* Leaves a caller may build: kind, headers, body.
Leaf(kind, headers, body) == [kind |-> kind, headers |-> headers, body |-> body]

SampleLeaves ==
    { Leaf("Text", ProfileHeaders("Text", <<>>, "ctor"), "ascii"),
      Leaf("Text", ProfileHeaders("Text", <<>>, "ctor"), "utf8"),
      Leaf("Text", <<>>, "trail"),
      Leaf("Text", <<ContentTypeHeader(<<"text/", "plain">>, <<>>),
                     ContentTypeHeader(<<"text/", "html">>, <<>>)>>, "empty"),
      Leaf("Text", ProfileHeaders("Text", <<>>, "ctor")
                     \o <<Header("Content-Disposition", "ContentType", <<"attachment">>,
                                 <<Attribute("filename", <<NonAscii, ".txt">>)>>, <<>>)>>, "trail"),
      Leaf("Binary", ProfileHeaders("Binary", <<>>, "ctor"), "ascii"),
      Leaf("Binary", <<ContentTypeHeader(<<"text/", "csv">>, <<>>)>>, "utf8"),
      Leaf("Binary", <<Header("Content-ID", "MessageId", <<>>, <<>>, <<"cid">>)>>, "empty") }

LeafPart(id, leaf) ==
    [id |-> id, kind |-> leaf.kind, headers |-> leaf.headers, body |-> leaf.body, parts |-> <<>>]

MultipartPart(id, headers, parts) ==
    [id |-> id, kind |-> "Multipart", headers |-> headers, body |-> "", parts |-> parts]

SampleBodies == {"empty", "ascii", "utf8", "trail", "newline", "accent"}

\* text/plain, text/csv, image/png and a raw "text/plain" over the same
\* body, each with the same Content-Disposition or with none: one Text part
\* and three Binary parts.
SameBodyParts(body, disposition) ==
    << LeafPart(<<1>>, Leaf("Text", <<ContentTypeHeader(<<"text/", "plain">>, <<>>)>> \o disposition, body)),
       LeafPart(<<2>>, Leaf("Binary", <<ContentTypeHeader(<<"text/", "csv">>, <<>>)>> \o disposition, body)),
       LeafPart(<<3>>, Leaf("Binary", <<ContentTypeHeader(<<"image/png">>, <<>>)>> \o disposition, body)),
       LeafPart(<<4>>, Leaf("Binary", <<Header("Content-Type", "Raw", <<>>, <<>>, <<"text/plain">>)>>
                                          \o disposition, body)) >>

Dispositions ==
    { <<>>,
      <<Header("Content-Disposition", "ContentType", <<"attachment">>, <<>>, <<>>)>>,
      <<Header("Content-Disposition", "ContentType", <<"inline">>, <<>>, <<>>)>> }

\* Small trees under every header list, and the same body under the two
\* leaf kinds.
HeaderTrees ==
    {LeafPart(<<>>, leaf) : leaf \in SampleLeaves}
        \cup {MultipartPart(<<>>, <<ContentTypeHeader(<<"multipart/mixed">>, <<>>)>>,
                             SameBodyParts(body, disposition)) :
                body \in SampleBodies, disposition \in Dispositions}
        \cup {MultipartPart(<<>>, hs, <<LeafPart(<<1>>, leaf)>>) :
                hs \in MultipartHeaderLists, leaf \in SampleLeaves}
        \cup {MultipartPart(<<>>, hs1,
                  << MultipartPart(<<1>>, hs2, <<Build([k |-> "Text", c |-> <<>>], <<1, 1>>, "ctor")>>),
                     Build([k |-> "Binary", c |-> <<>>], <<2>>, "ctor") >>) :
                hs1 \in MultipartHeaderLists, hs2 \in MultipartHeaderLists}

\* The low 16 bits of the hash of host name and thread id.
HashSamples == {0, 65535}

\* let mut stack = Vec::new(); let mut it = vec![self].into_iter();
\* let mut boundary = None;
Init ==
    /\ fn = "write_part"
    /\ \/ input \in WalkTrees /\ hash = 0
       \/ input \in HeaderTrees /\ hash \in HashSamples
    /\ it = <<input>>
    /\ stack = <<>>
    /\ boundary = NoBoundary
    /\ output = <<>>
    /\ pc = "loop"
    /\ counter = 0
    /\ resolved = <<>>
    /\ flag = FALSE /\ pos = 0 /\ bytes_written = 0 /\ prev_ch = 0
    /\ folds = <<>> /\ scan = <<>>
    /\ builder = NoBuilder /\ sink = ReliableSink /\ column = 0

Next ==
    \/ WriteText
    \/ WriteBinary
    \/ WriteMultipart
    \/ EndOfList

Spec == Init /\ [][Next]_vars

-----------------------------------------------------------------------------
(* Reference definitions for the properties of write_part.                 *)

WriteDone == fn = "write_part" /\ pc = "done"

\* The boundary write_part resolved for a multipart.
BoundaryOf(id) == (CHOOSE r \in {resolved[i] : i \in 1..Len(resolved)} : r.id = id).boundary

\* Delimiters are recognised by what was written: "\r\n--" first, and
\* "--\r\n" last for a close delimiter.
IsDelimiter(c) == Len(c.v) >= 2 /\ c.v[1] = "\r\n--"
IsClose(c) == IsDelimiter(c) /\ c.v[Len(c.v)] = "--\r\n"
IsOpen(c) == IsDelimiter(c) /\ c.v[Len(c.v)] = "\r\n"
DelimiterBoundary(c) == SubSeq(c.v, 2, Len(c.v) - 1)

IsBody(c) == c.k = "body"
IsDelimiterOrBody(c) == IsDelimiter(c) \/ IsBody(c)

\* What the output holds, in order: "open" and "close" with the boundary,
\* "leaf" with the id of the part.
EventOf(c) ==
    IF IsClose(c) THEN <<"close">> \o DelimiterBoundary(c)
    ELSE IF IsOpen(c) THEN <<"open">> \o DelimiterBoundary(c)
    ELSE <<"leaf">> \o IdTokens(c.p)

Events(kept) == [i \in 1..Len(kept) |-> EventOf(kept[i])]

\* The recursive serialisation of RFC 2046: a multipart is, for each child,
\* an open delimiter and the child, and then one close delimiter.
RECURSIVE ExpectedEvents(_, _, _)
RECURSIVE ExpectedChildren(_, _, _, _)
ExpectedEvents(part, delims, leaves) ==
    IF part.kind # "Multipart"
    THEN IF leaves THEN <<<<"leaf">> \o IdTokens(part.id)>> ELSE <<>>
    ELSE ExpectedChildren(part, 1, delims, leaves)
            \o (IF delims THEN <<<<"close">> \o BoundaryOf(part.id)>> ELSE <<>>)

ExpectedChildren(part, i, delims, leaves) ==
    IF i > Len(part.parts) THEN <<>>
    ELSE (IF delims THEN <<<<"open">> \o BoundaryOf(part.id)>> ELSE <<>>)
            \o ExpectedEvents(part.parts[i], delims, leaves)
            \o ExpectedChildren(part, i + 1, delims, leaves)

RECURSIVE AllParts(_)
AllParts(part) ==
    {part} \cup UNION {AllParts(part.parts[i]) : i \in 1..Len(part.parts)}

RECURSIVE Depth(_)
Depth(part) ==
    IF part.parts = <<>> THEN 1
    ELSE 1 + (CHOOSE d \in {Depth(part.parts[i]) : i \in 1..Len(part.parts)} :
                \A j \in 1..Len(part.parts) : Depth(part.parts[j]) <= d)

IsContentTypeName(c, id) ==
    c.k = "name" /\ c.p = id /\ EqIgnoreAsciiCase(c.v[1], "Content-Type")

\* The number of Content-Type header lines written for a part, and the
\* number of Content-Type headers attached to it.
EmittedContentTypes(out, id) == Cardinality({i \in 1..Len(out) : IsContentTypeName(out[i], id)})
AttachedContentTypes(part) ==
    Cardinality({i \in 1..Len(part.headers) : EqIgnoreAsciiCase(part.headers[i].name, "Content-Type")})

\* The rest of the header line opened by the name chunk at i: what follows up
\* to the first CRLF.
RECURSIVE LineAfter(_, _)
LineAfter(out, i) ==
    IF i + 1 > Len(out) THEN <<>>
    ELSE LET v == out[i + 1].v
         IN  IF v # <<>> /\ v[Len(v)] = "\r\n" THEN v ELSE v \o LineAfter(out, i + 1)

\* The first Content-Type header line of a part.
ContentTypeLine(out, id) ==
    IF \E i \in 1..Len(out) : IsContentTypeName(out[i], id)
    THEN LineAfter(out, CHOOSE i \in 1..Len(out) :
                            /\ IsContentTypeName(out[i], id)
                            /\ \A j \in 1..(i - 1) : ~IsContentTypeName(out[j], id))
    ELSE <<>>

Contains(line, b) ==
    \E i \in 0..(Len(line) - Len(b)) : SubSeq(line, i + 1, i + Len(b)) = b

-----------------------------------------------------------------------------
(* Properties of write_part (specification Spec).                          *)

\* C1: a multipart with boundary B and n children is written with n open
\* delimiters, one right before each child, then one close delimiter after
\* the last child, the delimiters of a nested multipart lying between two
\* consecutive delimiters of its parent: delimiters and leaf bodies follow
\* each other as in the recursive serialisation of the tree.
C1_DelimitersNest ==
    WriteDone => Events(SelectSeq(output, IsDelimiterOrBody)) = ExpectedEvents(input, TRUE, TRUE)

C1_Witness ==
    /\ WriteDone
    /\ Depth(input) >= 4
    /\ \E p \in AllParts(input) : p.kind = "Multipart" /\ p.id # <<>> /\ Len(p.parts) >= 1
    /\ \E p \in AllParts(input) : p.kind = "Multipart" /\ p.parts = <<>>
    /\ \E i \in 1..Len(resolved) : resolved[i].boundary # <<"b">>

\* C2: the leaf parts appear in the output in the order of a pre-order
\* traversal of the tree, each exactly once.
C2_LeavesInPreOrder ==
    WriteDone => Events(SelectSeq(output, IsBody)) = ExpectedEvents(input, FALSE, TRUE)

C2_Witness ==
    /\ WriteDone
    /\ Len(input.parts) >= 2
    /\ input.parts[1].kind = "Multipart" /\ Len(input.parts[1].parts) >= 2
    /\ input.parts[2].kind # "Multipart"

\* C3 as stated: exactly one Content-Type header line is written for every
\* part, whatever headers it carries.
C3_Original ==
    WriteDone => \A p \in AllParts(input) : EmittedContentTypes(output, p.id) = 1

\* C3, amended: as many Content-Type header lines are written for a part as
\* it carries Content-Type headers, and one (synthesized) for a multipart
\* that carries none; a leaf that carries none is written with none.
C3_ContentTypeCount ==
    WriteDone =>
        \A p \in AllParts(input) :
            EmittedContentTypes(output, p.id) =
                IF p.kind = "Multipart" /\ AttachedContentTypes(p) = 0 THEN 1
                ELSE AttachedContentTypes(p)

C3_Witness ==
    /\ WriteDone
    /\ input.kind = "Multipart" /\ AttachedContentTypes(input) = 0
    /\ Len(input.parts) = 2
    /\ AttachedContentTypes(input.parts[1]) = 2
    /\ EmittedContentTypes(output, <<>>) = 1

\* C4: the boundary of the delimiters of a multipart is the one in its
\* Content-Type header line, and that line ends with CRLF, whether the
\* header is a ContentType value with or without a boundary attribute, a
\* Raw value with or without boundary="...", or is missing.
C4_BoundaryInHeaderLine ==
    WriteDone =>
        \A p \in AllParts(input) :
            p.kind = "Multipart" =>
                LET line == ContentTypeLine(output, p.id)
                IN  /\ line # <<>> /\ line[Len(line)] = "\r\n"
                    /\ Contains(line, BoundaryOf(p.id))
                    /\ Contains(line, <<"multipart/mixed">>) \/ AttachedContentTypes(p) > 0

\* The part of the tree with a given id.
PartAt(id) == CHOOSE part \in AllParts(input) : part.id = id

\* The position of the first header named Content-Type, 0 when none is.
FirstContentTypeAt(part) ==
    LET named == {i \in 1..Len(part.headers) :
                    EqIgnoreAsciiCase(part.headers[i].name, "Content-Type")}
    IN  IF named = {} THEN 0 ELSE CHOOSE i \in named : \A j \in named : i <= j

\* A Multipart whose first Content-Type value is neither a ContentType nor
\* a Raw.
HasOtherContentType(part) ==
    /\ part.kind = "Multipart"
    /\ FirstContentTypeAt(part) # 0
    /\ part.headers[FirstContentTypeAt(part)].kind \notin {"ContentType", "Raw"}

\* C16: write_part panics on a Multipart whose first Content-Type value is
\* neither ContentType nor Raw, and only there: a panic happens right after
\* the name of such a header was written, no such Multipart is ever entered,
\* and a run that ends normally met none.
C16_PanicOnOtherContentType ==
    /\ pc = "panic" =>
          /\ output # <<>>
          /\ output[Len(output)].k = "name"
          /\ HasOtherContentType(PartAt(output[Len(output)].p))
          /\ FirstContentTypeAt(PartAt(output[Len(output)].p))
                = Cardinality({i \in 1..Len(output) :
                                 output[i].k = "name" /\ output[i].p = output[Len(output)].p})
    /\ \A k \in 1..Len(resolved) : ~HasOtherContentType(PartAt(resolved[k].id))
    /\ WriteDone => \A part \in AllParts(input) : ~HasOtherContentType(part)

\* The panic happens in a nested Multipart, after its parent was entered
\* with a ContentType or Raw value.
C16_Witness ==
    /\ fn = "write_part" /\ pc = "panic"
    /\ Len(resolved) >= 1
    /\ FirstContentTypeAt(PartAt(resolved[1].id)) # 0
    /\ HasOtherContentType(PartAt(output[Len(output)].p))

MaxCounterValue == 300

\* The boundaries make_boundary produced in this run, in order.
MadeBoundaries == SelectSeq(resolved, LAMBDA r : r.made)

\* The multiplier that undoes the mixing multiplier modulo 2^16.
MixInverse == CHOOSE k \in 1..(2 ^ 16 - 1) : (31765 * k) % (2 ^ 16) = 1

\* C17: the tokens make_boundary produces in one thread are pairwise
\* distinct whatever the clock returns, the counter advances by one per
\* call, and the mixing of the counter is injective: it is undone by a
\* multiplication, so two counters give the same mixed value only if they
\* are equal.
C17_BoundariesDistinct ==
    /\ \A i, j \in 1..Len(MadeBoundaries) :
          i # j => MadeBoundaries[i].boundary # MadeBoundaries[j].boundary
    /\ fn = "write_part" => counter = Len(MadeBoundaries)
    /\ output = <<>> =>
          \A c \in 0..MaxCounterValue :
              /\ (MixCounter(hash, c) * MixInverse) % (2 ^ 16) = (hash + c) % (2 ^ 16)
              /\ MixCounter(hash, c) # MixCounter(hash, c + 1)

\* More boundaries were made than the clock has values: two of them were
\* made at the same clock value.
C17_Witness ==
    /\ WriteDone
    /\ Len(MadeBoundaries) > Cardinality(ClockSamples)
    /\ counter = Len(MadeBoundaries)

\* The last n elements of a list.
Suffix(list, n) == SubSeq(list, Len(list) - n + 1, Len(list))

\* The multipart suspended by stack entry k + 1, found from the root by the
\* number of siblings each entry below it still holds; NodeAt(Len(stack))
\* is the multipart whose children are being iterated.
RECURSIVE NodeAt(_)
NodeAt(k) ==
    IF k = 0 THEN input
    ELSE LET parent == NodeAt(k - 1)
         IN  parent.parts[Len(parent.parts) - Len(stack[k].it)]

\* Entry k of the stack belongs to ancestor k - 1 of the current multipart:
\* it holds the siblings that follow the child on the path, and the
\* ancestor's boundary.
RECURSIVE StackMatches(_)
StackMatches(k) ==
    IF k = 0 THEN input.kind = "Multipart"
    ELSE /\ StackMatches(k - 1)
         /\ Len(stack[k].it) < Len(NodeAt(k - 1).parts)
         /\ NodeAt(k).kind = "Multipart"
         /\ stack[k].it = Suffix(NodeAt(k - 1).parts, Len(stack[k].it))
         /\ stack[k].boundary = Some(BoundaryOf(NodeAt(k - 1).id))

\* C18: while write_part runs, the active boundary is that of the multipart
\* whose children are being iterated, and the stack holds one pair per
\* suspended multipart ancestor, innermost on top: the siblings still to be
\* written after the nested multipart, and the ancestor's boundary.  Before
\* the root is entered, and for a root that is a leaf, there is no boundary
\* and the stack is empty.
C18_StackOfSuspendedAncestors ==
    (fn = "write_part" /\ pc \in {"loop", "done"}) =>
        IF boundary = NoBoundary
        THEN /\ stack = <<>>
             /\ \/ it = <<input>> /\ output = <<>>
                \/ it = <<>> /\ input.kind # "Multipart"
        ELSE /\ StackMatches(Len(stack))
             /\ boundary = Some(BoundaryOf(NodeAt(Len(stack)).id))
             /\ Len(it) <= Len(NodeAt(Len(stack)).parts)
             /\ it = Suffix(NodeAt(Len(stack)).parts, Len(it))

\* A nested multipart has just been closed: the walk is back in its parent
\* with siblings left to write, and the parent is itself nested.
C18_Witness ==
    /\ fn = "write_part" /\ pc = "loop"
    /\ output # <<>> /\ IsClose(output[Len(output)])
    /\ it # <<>> /\ stack # <<>>
    /\ boundary = Some(BoundaryOf(NodeAt(Len(stack)).id))
    /\ DelimiterBoundary(output[Len(output)]) # boundary[1]

MaxFairNodes == 4

\* The trees of the runs checked for termination: every shape of up to
\* MaxFairNodes parts as the constructors build it, and the small trees
\* under every header list.
FairTrees ==
    {Build(shape, <<>>, "ctor") : shape \in UNION {TreesOfSize(n) : n \in 1..MaxFairNodes}}
        \cup HeaderTrees

InitFair ==
    /\ fn = "write_part"
    /\ input \in FairTrees /\ hash = 0
    /\ it = <<input>>
    /\ stack = <<>>
    /\ boundary = NoBoundary
    /\ output = <<>>
    /\ pc = "loop"
    /\ counter = 0
    /\ resolved = <<>>
    /\ flag = FALSE /\ pos = 0 /\ bytes_written = 0 /\ prev_ch = 0
    /\ folds = <<>> /\ scan = <<>>
    /\ builder = NoBuilder /\ sink = ReliableSink /\ column = 0

\* write_part is sequential code: while a step of the loop is possible, it
\* is taken.
SpecFair == InitFair /\ [][Next]_vars /\ WF_vars(Next)

\* C19: on every tree, with a sink that never fails, write_part comes to an
\* end: it returns, or it panics on a Content-Type value of a kind it does
\* not handle (and only on a tree that holds one); it returns only with the
\* iterator exhausted and the stack empty.
C19_WalkTerminates ==
    /\ <>(fn = "write_part" /\ pc \in {"done", "panic"})
    /\ [](pc = "panic" => \E part \in AllParts(input) : HasOtherContentType(part))
    /\ [](WriteDone => it = <<>> /\ stack = <<>> /\ ~sink.failed)

\* write_part has returned from a tree three levels deep.
C19_Witness ==
    /\ WriteDone
    /\ Depth(input) >= 3
    /\ it = <<>> /\ stack = <<>>
    /\ Len(resolved) >= 2

-----------------------------------------------------------------------------
(* get_encoding_type run on bounded inputs (specification SpecSel).        *)

\* "hello world"
HelloWorld == <<104, 101, 108, 108, 111, SP, 119, 111, 114, 108, 100>>

\* Every short string over the bytes the selector tells apart; non-ASCII
\* bytes followed by letters; line feeds before a space; and long lines: a
\* run of letters, perhaps after a byte that needs encoding, then CR or
\* not, LF or not, and a tail.
SelectorInputs ==
    SeqsUpTo(SampleBytes \cup {63}, MaxShortLen)
        \cup {HelloWorld}
        \cup {Rep(<<200>>, k) \o Rep(<<97>>, m) : k \in 0..MaxMix, m \in 0..MaxMix}
        \cup {Rep(<<LF>>, k) \o <<SP>> : k \in 0..MaxMix}
        \cup {h \o Rep(<<97>>, n) \o e \o t :
                h \in {<<>>, <<200>>},
                n \in (MaxLineRun - 3)..MaxLineRun,
                e \in {<<>>, <<LF>>, <<CR, LF>>},
                t \in {<<>>, <<97>>}}

InitSel ==
    /\ fn = "get_encoding_type"
    /\ input \in SelectorInputs
    /\ flag \in BOOLEAN
    /\ pos = 0
    /\ scan = EncodingScanInit(input, flag)
    /\ output = <<>>
    /\ pc = "loop"
    /\ bytes_written = 0 /\ prev_ch = 0 /\ folds = <<>>
    /\ it = <<>> /\ stack = <<>> /\ boundary = <<>>
    /\ counter = 0 /\ hash = 0 /\ resolved = <<>>
    /\ builder = NoBuilder /\ sink = ReliableSink /\ column = 0

NextSel ==
    \/ EncodingLoop
    \/ EncodingReturn

SpecSel == InitSel /\ [][NextSel]_vars

SelDone == fn = "get_encoding_type" /\ pc = "done"

\* A space or a tab that is the last byte or is followed by LF or by CR LF.
TrailingBlank(s, i) ==
    /\ s[i] = SP \/ s[i] = TAB
    /\ \/ i = Len(s)
       \/ s[i + 1] = LF
       \/ (i + 2 <= Len(s) /\ s[i + 1] = CR /\ s[i + 2] = LF)

\* A line of more than 997 bytes, its LF included, ends somewhere in s.
HasOverLongLine(s) ==
    LET ends == {i \in 1..Len(s) : s[i] = LF}
    IN  \E i \in ends : \A j \in ends \cup {0} : j < i => i - j > 997

NeedsEncoding(s) ==
    \/ \E i \in 1..Len(s) : s[i] >= 127 \/ TrailingBlank(s, i)
    \/ HasOverLongLine(s)

\* The length of the quoted-printable form as the selector estimates it:
\* three bytes for an escaped byte and one for any other, and one per 76
\* input bytes for the soft breaks of the non-inline form.
QpLen(s, is_inline) ==
    LET escaped == {i \in 1..Len(s) :
                      \/ s[i] >= 127 \/ TrailingBlank(s, i) \/ s[i] = 61
                      \/ (is_inline /\ (s[i] = TAB \/ s[i] = 63))}
    IN  (IF is_inline THEN 0 ELSE Len(s) \div 76) + Len(s) + 2 * Cardinality(escaped)

ExpectedEncoding(s, is_inline) ==
    IF ~NeedsEncoding(s) THEN <<"None">>
    ELSE IF QpLen(s, is_inline) < 4 * ((Len(s) + 2) \div 3)
         THEN <<"QuotedPrintable", \A i \in 1..Len(s) : s[i] < 127>>
    ELSE <<"Base64">>

-----------------------------------------------------------------------------
(* src/lib.rs: MessageBuilder                                              *)

MaxCalls == 3
MaxWrites == 100

\* The part id under which the top-level headers are recorded.
TopLevel == <<0>>

\* Address::new_address(name, email) under a header name
AddressHeader(name, display, email) == Header(name, "Address", display, <<>>, <<email>>)

\* Text::new(value) under a header name
TextHeader(name, value) == Header(name, "Text", <<>>, <<>>, <<value>>)

\* Date::new(timestamp) under a header name, by its RFC 2822 form
DateHeader(name, rfc2822) == Header(name, "Date", <<>>, <<>>, <<rfc2822>>)

\* MessageId::new(id) under a header name
MessageIdHeader(name, id) == Header(name, "MessageId", <<>>, <<>>, <<id>>)

\* MimePart::new_text(contents)
new_text(contents) == LeafPart(<<>>, Leaf("Text", ProfileHeaders("Text", <<>>, "ctor"), contents))

\* MimePart::new_html(contents)
new_html(contents) ==
    LeafPart(<<>>, Leaf("Text",
                        <<ContentTypeHeader(<<"text/", "html">>,
                                            <<Attribute("charset", <<"utf-8">>)>>)>>,
                        contents))

\* MimePart::new_binary("image/png", contents).attachment("image.png")
new_attachment(contents) ==
    LeafPart(<<>>, Leaf("Binary", ProfileHeaders("Binary", <<>>, "ctor"), contents))

\* MimePart::new_multipart(content_type, contents)
new_multipart(content_type, contents) ==
    MultipartPart(<<>>, <<ContentTypeHeader(<<content_type>>, <<>>)>>, contents)

\* A tree with every part labelled by its path from the root.
RECURSIVE WithIds(_, _)
WithIds(part, id) ==
    [part EXCEPT !.id = id,
                 !.parts = [i \in 1..Len(part.parts) |-> WithIds(part.parts[i], Append(id, i))]]

\* MessageBuilder::new(); calls is the history of the calls made on the
\* builder, kept for the properties only.
new ==
    [headers |-> <<>>, html_body |-> <<>>, text_body |-> <<>>, attachments |-> <<>>,
     body |-> <<>>, calls |-> <<>>]

Called(b, method, value) == [b EXCEPT !.calls = Append(@, [method |-> method, value |-> value])]

\* self.headers.entry(header).or_insert_with(Vec::new).push(value): the map
\* is a list of (name, values) with distinct names.
header(b, name, value) ==
    LET at == {i \in 1..Len(b.headers) : b.headers[i].name = name}
    IN  IF at = {}
        THEN [b EXCEPT !.headers = Append(@, [name |-> name, values |-> <<value>>])]
        ELSE [b EXCEPT !.headers[CHOOSE i \in at : TRUE].values = Append(@, value)]

message_id(b, id) == header(b, "Message-ID", MessageIdHeader("Message-ID", id))
from(b, display, email) == header(b, "From", AddressHeader("From", display, email))
to(b, display, email) == header(b, "To", AddressHeader("To", display, email))
subject(b, value) == header(b, "From", TextHeader("From", value))
date(b, rfc2822) == header(b, "Date", DateHeader("Date", rfc2822))
text_body(b, value) == [b EXCEPT !.text_body = <<new_text(value)>>]
html_body(b, value) == [b EXCEPT !.html_body = <<new_html(value)>>]
attachment(b, value) ==
    [b EXCEPT !.attachments = <<(IF @ = <<>> THEN <<>> ELSE @[1]) \o <<new_attachment(value)>>>>]

\* The part write_to writes: self.body, or the match on (text_body,
\* html_body, attachments).
MessageBody(b) ==
    LET text == b.text_body
        html == b.html_body
        atts == IF b.attachments = <<>> THEN <<>> ELSE b.attachments[1]
        some == b.attachments # <<>>
    IN  WithIds(
          IF b.body # <<>> THEN b.body[1]
          ELSE IF text # <<>> /\ html # <<>> /\ some
          THEN new_multipart("multipart/mixed",
                             <<new_multipart("multipart/alternative", text \o html)>> \o atts)
          ELSE IF text # <<>> /\ html # <<>>
          THEN new_multipart("multipart/alternative", text \o html)
          ELSE IF text # <<>> /\ some THEN new_multipart("multipart/mixed", text \o atts)
          ELSE IF text # <<>> THEN text[1]
          ELSE IF html # <<>> /\ some THEN new_multipart("multipart/mixed", html \o atts)
          ELSE IF html # <<>> THEN html[1]
          ELSE IF some THEN new_multipart("multipart/mixed", atts)
          ELSE new_text("newline"),
          <<>>)

\* for header_value in header_values { name, ": ", write_header }
RECURSIVE HeaderValues(_, _, _)
HeaderValues(name, values, j) ==
    IF j > Len(values) THEN <<>>
    ELSE << Chunk("name", TopLevel, <<name, ": ">>),
            Chunk("value", TopLevel, WriteHeader(values[j], Len(name) + 2)) >>
             \o HeaderValues(name, values, j + 1)

NamesDateNever(has_date, name) == FALSE

\* !has_date && header_name == "Date"
NamesDate(has_date, name) == ~has_date /\ name = "Date"

\* !has_message_id && header_name == "Message-ID"
NamesMessageId(has_message_id, name) == ~has_message_id /\ name = "Message-ID"

\* for (header_name, header_values) in &self.headers, in the order the map
\* yields its entries, from the i-th on.
RECURSIVE MessageHeaders(_, _, _, _)
MessageHeaders(hs, order, i, acc) ==
    IF i > Len(hs) THEN acc
    ELSE LET e == hs[order[i]]
             is_date == NamesDate(acc.has_date, e.name)
             is_id == ~is_date /\ NamesMessageId(acc.has_message_id, e.name)
         IN  MessageHeaders(hs, order, i + 1,
                 [chunks |-> acc.chunks \o HeaderValues(e.name, e.values, 1),
                  has_date |-> acc.has_date \/ is_date,
                  has_message_id |-> acc.has_message_id \/ is_id])

\* Local::now().to_rfc2822()
Rfc2822Now == "rfc2822(now)"

\* if !has_message_id { "Message-ID: <", make_boundary(), ">\r\n" }
SynthesizedMessageId(fresh) ==
    Chunk("synthesized", TopLevel, <<"Message-ID: <">> \o fresh \o <<">\r\n">>)

\* if !has_date { "Date: ", Local::now().to_rfc2822(), "\r\n" }
SynthesizedDate == Chunk("synthesized", TopLevel, <<"Date: ", Rfc2822Now, "\r\n">>)

\* MessageBuilder::write_to up to the first step of write_part: the headers
\* in the order the HashMap yields them (any order), the synthesized
\* Message-ID and Date, the choice of the body, and the entry into
\* write_part.
WriteTo ==
    /\ fn = "MessageBuilder" /\ pc = "build"
    /\ \E order \in Permutations(1..Len(builder.headers)), now \in ClockSamples :
       \E fresh \in {make_boundary(now, hash, counter)} :
       \E loop \in {MessageHeaders(builder.headers, order, 1,
                        [chunks |-> <<>>, has_date |-> FALSE, has_message_id |-> FALSE])} :
       \E w \in {SinkWrite(output, sink,
                     loop.chunks
                        \o (IF ~loop.has_message_id THEN <<SynthesizedMessageId(fresh)>> ELSE <<>>)
                        \o (IF ~loop.has_date THEN <<SynthesizedDate>> ELSE <<>>))} :
       \E part \in {MessageBody(builder)} :
            /\ output' = w.output
            /\ sink' = w.sink
            /\ counter' = IF ~loop.has_message_id /\ w.accepted > Writes(loop.chunks)
                          THEN counter + 1 ELSE counter
            /\ IF ReturnsErr(w.failed)
               THEN /\ fn' = "write_to" /\ pc' = "err"
                    /\ UNCHANGED <<input, it>>
               ELSE /\ fn' = "write_part" /\ pc' = "loop"
                    /\ input' = part
                    /\ it' = <<part>>
    /\ stack' = <<>>
    /\ boundary' = NoBoundary
    /\ UNCHANGED <<hash, resolved, builder, column>>
    /\ UNCHANGED <<flag, pos, bytes_written, prev_ch, folds, scan>>

-----------------------------------------------------------------------------
(* Messages built call by call and written (specification SpecMsg).        *)

Building == fn = "MessageBuilder" /\ pc = "build" /\ Len(builder.calls) < MaxCalls

BuilderStep(b) ==
    /\ builder' = b
    /\ UNCHANGED <<fn, input, flag, pos, bytes_written, prev_ch, output, pc, folds, scan>>
    /\ UNCHANGED <<it, stack, boundary, counter, hash, resolved, sink, column>>

\* message.from(("John Doe", "john@doe.com"))
CallFrom ==
    /\ Building
    /\ BuilderStep(Called(from(builder, <<"John Doe">>, "john@doe.com"), "from", "john@doe.com"))

\* message.to("jane@doe.com")
CallTo ==
    /\ Building
    /\ BuilderStep(Called(to(builder, <<>>, "jane@doe.com"), "to", "jane@doe.com"))

\* message.subject("Hello, world!")
CallSubject ==
    /\ Building
    /\ BuilderStep(Called(subject(builder, "Hello, world!"), "subject", "Hello, world!"))

\* message.date(..)
CallDate ==
    /\ Building
    /\ BuilderStep(Called(date(builder, "rfc2822(0)"), "date", "rfc2822(0)"))

\* message.message_id("id@doe.com")
CallMessageId ==
    /\ Building
    /\ BuilderStep(Called(message_id(builder, "id@doe.com"), "message_id", "id@doe.com"))

\* The headers given through message.header(name, value).
CustomHeaders ==
    { DateHeader("date", "rfc2822(1)"),
      Header("X-Mailer", "Raw", <<>>, <<>>, <<"mail-builder">>) }

CallHeader ==
    /\ Building
    /\ \E h \in CustomHeaders :
          BuilderStep(Called(header(builder, h.name, h), "header", h.name))

\* message.text_body("hi\n")
CallTextBody ==
    /\ Building
    /\ BuilderStep(Called(text_body(builder, "ascii"), "text_body", "ascii"))

\* message.attachment("image/png", "image.png", ..)
CallAttachment ==
    /\ Building
    /\ BuilderStep(Called(attachment(builder, "ascii"), "attachment", "ascii"))

InitMsg ==
    /\ fn = "MessageBuilder" /\ pc = "build"
    /\ builder = new /\ column = 0
    /\ sink = ReliableSink
    /\ hash = 0 /\ counter = 0
    /\ input = <<>> /\ it = <<>> /\ stack = <<>> /\ boundary = NoBoundary
    /\ output = <<>> /\ resolved = <<>>
    /\ flag = FALSE /\ pos = 0 /\ bytes_written = 0 /\ prev_ch = 0
    /\ folds = <<>> /\ scan = <<>>

NextMsg ==
    \/ CallFrom
    \/ CallTo
    \/ CallSubject
    \/ CallDate
    \/ CallMessageId
    \/ CallHeader
    \/ CallTextBody
    \/ CallAttachment
    \/ WriteTo
    \/ WriteText
    \/ WriteBinary
    \/ WriteMultipart
    \/ EndOfList

SpecMsg == InitMsg /\ [][NextMsg]_vars

-----------------------------------------------------------------------------
(* Properties of the top-level headers (specification SpecMsg).            *)

\* write_to has written the headers and entered write_part.
HeadersWritten == builder # NoBuilder /\ fn = "write_part"

\* The header lines of the message, by their position in the output.
TopLines ==
    {i \in 1..Len(output) : output[i].p = TopLevel /\ output[i].k \in {"name", "synthesized"}}

\* The name a header line starts with.
LineName(c) ==
    IF c.k = "name" THEN c.v[1]
    ELSE IF c.v[1] = "Message-ID: <" THEN "Message-ID" ELSE "Date"

LinesNamed(name) == {i \in TopLines : LineName(output[i]) = name}

\* The caller gave the builder a header of this name.
Supplied(name) == \E i \in 1..Len(builder.headers) : builder.headers[i].name = name

SuppliedValues(name) ==
    LET at == CHOOSE i \in 1..Len(builder.headers) : builder.headers[i].name = name
    IN  builder.headers[at].values

\* C13: the written message has a Message-ID and a Date header line; each
\* is synthesized exactly when the builder holds no header of that name
\* (names as the caller wrote them), and with a supplied one the lines of
\* that name are the supplied values and nothing more.
C13_MessageIdAndDatePresent ==
    HeadersWritten =>
        \A name \in {"Message-ID", "Date"} :
            /\ LinesNamed(name) # {}
            /\ (\E i \in LinesNamed(name) : output[i].k = "synthesized") <=> ~Supplied(name)
            /\ Cardinality(LinesNamed(name))
                  = (IF Supplied(name) THEN Len(SuppliedValues(name)) ELSE 1)

\* A message written with a Date of the caller's and no Message-ID.
C13_Witness ==
    /\ HeadersWritten /\ pc = "done"
    /\ Supplied("Date") /\ ~Supplied("Message-ID")
    /\ \E i \in LinesNamed("Message-ID") : output[i].k = "synthesized"
    /\ \A i \in LinesNamed("Date") : output[i].k = "name"

\* The calls of a method made on the builder, in order.
CallsOf(method) == SelectSeq(builder.calls, LAMBDA c : c.method = method)

\* The value written on the header line that starts at output[i].
LineValue(i) == IF i < Len(output) /\ output[i + 1].k = "value" THEN output[i + 1].v ELSE <<>>

\* C14: subject(v) adds v under the header name Subject and leaves From
\* as it was: the message has one Subject line per call of subject, holding
\* its text, and one From line per call of from, holding an address.
C14_SubjectUnderSubject ==
    HeadersWritten =>
        /\ Cardinality(LinesNamed("Subject")) = Len(CallsOf("subject"))
        /\ \A k \in 1..Len(CallsOf("subject")) :
              \E i \in LinesNamed("Subject") : LineValue(i) = <<CallsOf("subject")[k].value, "\r\n">>
        /\ Cardinality(LinesNamed("From")) = Len(CallsOf("from"))
        /\ \A i \in LinesNamed("From") :
              \E k \in 1..Len(CallsOf("from")) : Contains(LineValue(i), <<CallsOf("from")[k].value>>)

\* The names of the header lines the caller supplied, in the order written.
WrittenNames ==
    LET lines == SelectSeq(output, LAMBDA c : c.p = TopLevel /\ c.k = "name")
    IN  [i \in 1..Len(lines) |-> lines[i].v[1]]

\* The names of the header values, name by name in the order the names were
\* first given, under each name in the order the values were given.
RECURSIVE InsertionNames(_)
InsertionNames(hs) ==
    IF hs = <<>> THEN <<>>
    ELSE [j \in 1..Len(Head(hs).values) |-> Head(hs).name] \o InsertionNames(Tail(hs))

\* C15: the top-level header mapping keeps its order: the header lines are
\* written name by name in the order the names were inserted, and under each
\* name in the order the values were inserted.
C15_HeadersInInsertionOrder ==
    HeadersWritten => WrittenNames = InsertionNames(builder.headers)

-----------------------------------------------------------------------------
(* write_to into sinks that fail (specification SpecIO).                   *)

\* message.body(value)
body(b, value) == [b EXCEPT !.body = <<value>>]

\* The message of examples/simple_message.rs, a message with both bodies,
\* an attachment and its own Date and Message-ID, an empty builder, and a
\* builder given a nested multipart as its body.
IOBuilders ==
    { attachment(text_body(subject(to(from(new, <<"John Doe">>, "john@doe.com"),
                                      <<>>, "jane@doe.com"),
                                   "Hello, world!"),
                           "ascii"),
                 "ascii"),
      attachment(html_body(text_body(message_id(date(new, "rfc2822(0)"), "id@doe.com"),
                                     "utf8"),
                           "ascii"),
                 "ascii"),
      new,
      body(from(new, <<NonAscii>>, "john@doe.com"),
           Build([k |-> "Multipart",
                  c |-> << [k |-> "Multipart", c |-> <<[k |-> "Text", c |-> <<>>]>>],
                           [k |-> "Binary", c |-> <<>>] >>], <<>>, "ctor")) }

InitIO ==
    /\ fn = "MessageBuilder" /\ pc = "build"
    /\ builder \in IOBuilders /\ column = 0
    /\ \E left \in (0..MaxWrites) \cup {NeverFails} :
          sink = [left |-> left, failed |-> FALSE, late |-> 0]
    /\ hash = 0 /\ counter = 0
    /\ input = <<>> /\ it = <<>> /\ stack = <<>> /\ boundary = NoBoundary
    /\ output = <<>> /\ resolved = <<>>
    /\ flag = FALSE /\ pos = 0 /\ bytes_written = 0 /\ prev_ch = 0
    /\ folds = <<>> /\ scan = <<>>

NextIO ==
    \/ WriteTo
    \/ WriteText
    \/ WriteBinary
    \/ WriteMultipart
    \/ EndOfList

SpecIO == InitIO /\ [][NextIO]_vars

\* The number of header values in the builder's map.
RECURSIVE ValueCount(_)
ValueCount(hs) == IF hs = <<>> THEN 0 ELSE Len(Head(hs).values) + ValueCount(Tail(hs))

\* Everything of the message is in the output: a value for each top-level
\* header value, the body of every leaf, the blank line and the close
\* delimiter of every multipart.
AllWritten ==
    /\ Cardinality({i \in 1..Len(output) : output[i].k = "value" /\ output[i].p = TopLevel})
          = ValueCount(builder.headers)
    /\ \A part \in AllParts(input) :
          \E i \in 1..Len(output) :
             /\ output[i].p = part.id
             /\ output[i].k = (IF part.kind = "Multipart" THEN "blank" ELSE "body")
    /\ Cardinality({i \in 1..Len(output) : IsClose(output[i])})
          = Cardinality({part \in AllParts(input) : part.kind = "Multipart"})

IsPrefix(a, b) == Len(a) <= Len(b) /\ SubSeq(b, 1, Len(a)) = a

\* The writes recorded in the output stay as they are.
OutputKept == IsPrefix(output, output')

\* C12: a write the sink refuses makes write_to / write_part return Err at
\* once: no write is attempted after the failed one, the run is in its error
\* state exactly when a write has failed, what was written before stays in
\* the output, and the run returns Ok only with every header and part
\* written.
C12_WriteFailurePropagates ==
    /\ [](/\ sink.late = 0
          /\ sink.failed <=> pc = "err"
          /\ sink.failed => sink.left = 0
          /\ pc = "done" => ~sink.failed /\ AllWritten)
    /\ [][OutputKept]_vars

\* A write fails inside a nested multipart, after part of the message was
\* written.
C12_Witness ==
    /\ fn = "write_part" /\ pc = "err"
    /\ sink.failed /\ stack # <<>> /\ output # <<>>
    /\ builder # NoBuilder

-----------------------------------------------------------------------------
(* The selector against the encoders (specification SpecSel).              *)

\* The bytes the quoted-printable encoder of the context writes for s: the
\* Q encoding of an encoded-word when inline, quoted_printable_encode
\* otherwise.
QuotedPrintableOutput(s, is_inline, is_body) ==
    IF is_inline THEN inline_quoted_printable_encode(s)
    ELSE quoted_printable_encode(s, is_body)

\* C24: get_encoding_type picks the smaller output: when it returns
\* QuotedPrintable, the quoted-printable encoder of the context writes fewer
\* bytes than base64_encode_mime; when it returns Base64, base64_encode_mime
\* writes no more bytes than the quoted-printable encoder.
C24_SelectorPicksSmallerOutput ==
    SelDone =>
        \A is_body \in BOOLEAN :
            /\ output[1] = "QuotedPrintable" =>
                 Len(QuotedPrintableOutput(input, flag, is_body)) < Len(base64_encode_mime(input, flag))
            /\ output[1] = "Base64" =>
                 Len(base64_encode_mime(input, flag)) <= Len(QuotedPrintableOutput(input, flag, is_body))

\* Some line of s is longer than 997 bytes, its LF counted as the selector
\* counts it: 997 bytes without LF are followed by one more byte.
HasLongLine(s) ==
    \E i \in 1..(Len(s) - 997) : \A k \in i..(i + 996) : s[k] # LF

\* Some byte of s asks for an encoding by itself.
HasEncodedByte(s) == \E i \in 1..Len(s) : s[i] >= 127 \/ TrailingBlank(s, i)

\* C25: in non-inline mode get_encoding_type does not return None for an
\* input with a line longer than 997 bytes, a last line without LF
\* included; and the rule does not ask for an encoding when no line is
\* longer than 997 bytes.
C25_LongLinesAreEncoded ==
    (SelDone /\ ~flag) =>
        /\ HasLongLine(input) => output[1] # "None"
        /\ (~HasLongLine(input) /\ ~HasEncodedByte(input)) => output[1] = "None"

-----------------------------------------------------------------------------
(* The escapes of the quoted-printable encoders (specification SpecEnc).   *)

\* The output of quoted_printable_encode read as tokens, soft breaks
\* dropped: 256 + b for a byte b written as "=" and two uppercase
\* hexadecimal digits, b for a byte written as it is; <<-1>> when some "="
\* opens neither.
QPTokens(s) ==
    LET n == Len(s)
        opens(i) == i >= 1 /\ s[i] = 61
        softBreak(i) == s[i + 1] = CR /\ s[i + 2] = LF
        escape(i) == HexValue(s[i + 1]) >= 0 /\ HexValue(s[i + 2]) >= 0
        readable == \A i \in 1..n : opens(i) => (i + 2 <= n /\ (softBreak(i) \/ escape(i)))
    IN  IF ~readable THEN <<0 - 1>>
        ELSE SelectSeq([i \in 1..n |->
                          IF opens(i)
                          THEN IF softBreak(i) THEN Nothing
                               ELSE 256 + HexValue(s[i + 1]) * 16 + HexValue(s[i + 2])
                          ELSE IF opens(i - 1) \/ opens(i - 2) THEN Nothing
                          ELSE s[i]],
                       IsSomething)

\* The bytes the statement has escaped, at index i of s.
EscapedAsStated(s, i, is_body) ==
    \/ s[i] = 61
    \/ s[i] >= 127
    \/ (is_body /\ TrailingBlank(s, i))
    \/ (~is_body /\ (s[i] = CR \/ s[i] = LF))
    \/ (~is_body /\ (s[i] = SP \/ s[i] = TAB) /\ i = Len(s))

\* The tokens the statement asks for: every byte of s in order, escaped or
\* as it is.
TokensAsStated(s, is_body) ==
    [i \in 1..Len(s) |-> IF EscapedAsStated(s, i, is_body) THEN 256 + s[i] ELSE s[i]]

\* t without the CRs that stand immediately before an LF (the line ends of
\* body mode are C9's subject).
WithoutCRBeforeLF(t) ==
    SelectSeq([i \in 1..Len(t) |->
                 IF t[i] = CR /\ i < Len(t) /\ t[i + 1] = LF THEN Nothing ELSE t[i]],
              IsSomething)

\* C26: quoted_printable_encode writes as "=XX" (uppercase) exactly "=",
\* the bytes >= 127 and, in body mode, a space or tab that is the last byte
\* or stands before LF or CR LF; in attachment mode, CR, LF and a space or
\* tab that is the last byte. Every other byte is written as it is, in the
\* order of the input.
C26_EscapesAsStated ==
    QPDone =>
        IF flag
        THEN WithoutCRBeforeLF(QPTokens(output)) = WithoutCRBeforeLF(TokensAsStated(input, TRUE))
        ELSE QPTokens(output) = TokensAsStated(input, FALSE)

\* Attachment mode has returned from an input with CR, LF and a last
\* space, long enough to be soft-broken.
C26_Witness ==
    /\ QPDone /\ ~flag
    /\ Len(input) > 76
    /\ Has(input, LF) /\ Has(input, CR) /\ input[Len(input)] = SP
    /\ \E i \in 1..(Len(output) - 2) : output[i] = 61 /\ output[i + 1] = CR

InlineDone == fn = "inline_quoted_printable" /\ pc = "done"

\* The token the statement asks for a byte b of the input.
InlineTokenAsStated(b) ==
    IF b \in {61, 63, 95, TAB, CR, LF} \/ b >= 127 THEN 256 + b
    ELSE IF b = SP THEN 95
    ELSE b

\* C27: inline_quoted_printable_encode writes, for each byte of the input
\* in order, "=XX" (uppercase) for "=", "?", "_", tab, CR, LF and a byte
\* >= 127, "_" for a space, and the byte itself otherwise; it writes no
\* line break; the value it returns is the number of bytes it wrote.
C27_InlineMapsEachByte ==
    InlineDone =>
        /\ QPTokens(output) = [i \in 1..Len(input) |-> InlineTokenAsStated(input[i])]
        /\ ~Has(output, CR) /\ ~Has(output, LF)
        /\ bytes_written = Len(output)

\* It has returned from an input with "_", "?" and a space.
C27_Witness ==
    /\ InlineDone
    /\ Has(input, 95) /\ Has(input, 63) /\ Has(input, SP)
    /\ Len(output) = 7

-----------------------------------------------------------------------------
(* The transfer encoding of leaf parts (specification Spec).               *)

\* What was written for the part id after its headers: the
\* Content-Transfer-Encoding line and the body.
TransferOf(id) ==
    LET Mine(c) == c.p = id /\ c.k \in {"cte", "body"}
        mine == SelectSeq(output, Mine)
    IN  [i \in 1..Len(mine) |-> mine[i].v]

\* Some Content-Type header of the part is a ContentType value that starts
\* with "text/".
HasTextContentType(part) ==
    \E i \in 1..Len(part.headers) :
        /\ part.headers[i].name = "Content-Type"
        /\ part.headers[i].kind = "ContentType"
        /\ part.headers[i].c_type # <<>>
        /\ part.headers[i].c_type[1] = "text/"

DispositionHeaders(part) ==
    LET Named(h) == h.name = "Content-Disposition"
    IN  SelectSeq(part.headers, Named)

\* C28: a Binary part with no ContentType value "text/..." as Content-Type
\* is written with "Content-Transfer-Encoding: base64" and its bytes in
\* non-inline base64, whatever the bytes are; a Binary part with one is
\* written as a Text part with the same bytes and the same disposition is.
C28_BinaryTransferEncoding ==
    WriteDone =>
        \A b \in AllParts(input) :
            b.kind = "Binary" =>
                IF ~HasTextContentType(b)
                THEN TransferOf(b.id) = << <<"Content-Transfer-Encoding: ", "base64", "\r\n\r\n">>,
                                           <<b.body, "base64", "non-inline">> >>
                ELSE \A t \in AllParts(input) :
                        (/\ t.kind = "Text"
                         /\ t.body = b.body
                         /\ DispositionHeaders(t) = DispositionHeaders(b))
                            => TransferOf(t.id) = TransferOf(b.id)

\* A text/csv Binary part was written as 7bit like its Text twin, next to
\* an image/png part with the same ASCII bytes written as base64.
C28_Witness ==
    /\ WriteDone
    /\ Len(input.parts) = 4
    /\ input.parts[1].body = "ascii"
    /\ TransferOf(<<2>>)[1][2] = "7bit"
    /\ TransferOf(<<3>>)[1][2] = "base64"
    /\ TransferOf(<<4>>)[1][2] = "base64"

-----------------------------------------------------------------------------
(* The 7bit body of detect_encoding (specification SpecEnc).               *)

DetectDone == fn = "detect_encoding" /\ pc = "done"

\* s with every LF that does not stand immediately after a CR turned into
\* CR LF, and every other byte kept.
NormalizedLineEnds(s) ==
    Flatten([i \in 1..Len(s) |->
               IF s[i] = LF /\ (i = 1 \/ s[i - 1] # CR) THEN CRLF ELSE <<s[i]>>])

\* C29: when the selector returns None, detect_encoding writes, in body
\* mode, the input with every LF that does not follow a CR turned into
\* CR LF and every other byte, CR LF pairs included, kept (doing it again
\* changes nothing); in attachment mode it writes the input as it is.
C29_SevenBitBody ==
    (DetectDone /\ scan.cte = "7bit") =>
        IF flag
        THEN /\ output = NormalizedLineEnds(input)
             /\ NormalizedLineEnds(output) = output
        ELSE output = input

\* A body with a bare LF first, a CR LF pair and a lone CR was written in
\* body mode.
C29_Witness ==
    /\ DetectDone /\ scan.cte = "7bit" /\ flag
    /\ input = <<LF, CR, LF, CR, 97>>
    /\ output = <<CR, LF, CR, LF, CR, 97>>

-----------------------------------------------------------------------------
(* URL::write_header and MessageId::write_header run on bounded lists      *)
(* (specification SpecList).                                               *)

\* Elements of 1, 30, 40, 71 and 80 letters, a letter of its own for each.
ElementSamples ==
    {Rep(<<97>>, 1), Rep(<<98>>, 30), Rep(<<99>>, 40), Rep(<<100>>, 71), Rep(<<101>>, 80)}

\* Columns already used on the line: header_name.len() + 2.
ListColumns == {0, 12, 76}

InitList ==
    /\ fn \in {"url_header", "message_id_header"}
    /\ input \in SeqsUpTo(ElementSamples, MaxListLen)
    /\ bytes_written \in ListColumns
    /\ column = bytes_written
    /\ flag = FALSE
    /\ pos = 0
    /\ prev_ch = 0
    /\ output = <<>>
    /\ pc = "loop"
    /\ folds = <<>>
    /\ scan = <<>>
    /\ it = <<>> /\ stack = <<>> /\ boundary = <<>>
    /\ counter = 0 /\ hash = 0 /\ resolved = <<>>
    /\ builder = NoBuilder /\ sink = ReliableSink

NextList ==
    \/ UrlStep
    \/ MessageIdStep
    \/ ListEnd

SpecList == InitList /\ [][NextList]_vars

ListDone == fn \in {"url_header", "message_id_header"} /\ pc = "done"

IsBlank(b) == b \in {SP, TAB, CR, LF}
IsVisible(b) == ~IsBlank(b)

\* The elements in order, each between "<" and ">", with a comma after
\* every element but the last in a URL list.
ElementsAsStated(list, commas) ==
    Flatten([i \in 1..Len(list) |->
               <<60>> \o list[i] \o (IF commas /\ i < Len(list) THEN <<62, 44>> ELSE <<62>>)])

\* Byte i of out is part of a separator between two elements (a space after
\* a comma, or CR LF TAB; "<" comes next) or of the CR LF that ends the
\* header.
SeparatorAt(out, i) ==
    LET n == Len(out)
        closes(j) == j >= 1 /\ (out[j] = 62 \/ out[j] = 44)
        opens(j) == j <= n /\ out[j] = 60
    IN  CASE out[i] = SP -> closes(i - 1) /\ out[i - 1] = 44 /\ opens(i + 1)
          [] out[i] = CR -> /\ i + 1 <= n /\ out[i + 1] = LF
                            /\ \/ i + 1 = n
                               \/ (closes(i - 1) /\ i + 2 <= n /\ out[i + 2] = TAB)
          [] out[i] = LF -> i >= 2 /\ out[i - 1] = CR
          [] OTHER -> i >= 3 /\ out[i - 1] = LF /\ opens(i + 1)

\* C30: URL::write_header and MessageId::write_header write the elements
\* in their order, each between "<" and ">"; a fold (CR LF TAB) or a space
\* stands only between two elements, none inside an element and none after
\* the last; a URL list has a comma after every element but the last.
C30_ListsFoldBetweenElements ==
    ListDone =>
        /\ SelectSeq(output, IsVisible) = ElementsAsStated(input, fn = "url_header")
        /\ \A i \in 1..Len(output) : IsBlank(output[i]) => SeparatorAt(output, i)
        /\ input # <<>> => output[Len(output) - 2] = 62

\* A URL list of three elements was written with a fold and with a space.
C30_Witness ==
    /\ ListDone /\ fn = "url_header"
    /\ Len(input) = 3
    /\ Has(output, TAB) /\ Has(output, SP)

=============================================================================
